---- MODULE Spec2Model ----
(***************************************************************************)
(* tinywasm (reef-runtime fork): bounded-cycle resumable execution and     *)
(* snapshot/restore of the interpreter state.                              *)
(*                                                                         *)
(* The interpreter is a stack machine: a Stack holds the value stack and   *)
(* the call stack; a CallFrame holds the function, the instruction         *)
(* pointer, the locals and the block frames.  FuncHandle::call and         *)
(* ExecHandle::run execute it for at most max_cycles dispatches;           *)
(* ExecHandle::serialize archives stack, memory and globals.               *)
(***************************************************************************)
EXTENDS Integers, Sequences, FiniteSets, TLC

\* ------------------------------------------------------------------ bounds

\* The largest of the small cycle budgets a caller passes to run / call.
MaxChunk == 3
\* No run is started once an invocation has consumed this many cycles.
MaxTotal == 40
\* Bytes of one page of linear memory (the program's pages are 64 KiB).
PageSize == 2

\* The driver's budget, reef_testing/src/main.rs:53.
MAX_CYCLES == 200

None == "None"

\* F applied to the value of x, which is evaluated once.
Bind(x, F(_)) == CHOOSE r \in { F(v) : v \in {x} } : TRUE

\* ------------------------------------------------------------------ values

I32Max == 2147483647
I32Min == (-I32Max) - 1

\* i32 addition with two's complement wrap-around, never leaving 32 bits.
WrapAdd(a, b) ==
  IF a >= 0 /\ b >= 0 /\ a > I32Max - b THEN ((a - I32Max) + (b - I32Max)) - 2
  ELSE IF a < 0 /\ b < 0 /\ a < I32Min - b THEN ((a + I32Max) + (b + I32Max)) + 2
  ELSE a + b

\* i32 subtraction with wrap-around.
WrapSub(a, b) ==
  IF b = I32Min
  THEN (IF a < 0 THEN a - b ELSE a + I32Min)
  ELSE WrapAdd(a, -b)

\* RawWasmValue::attach_type: the raw cell tagged with a value type.
attach_type(v, ty) == [ty |-> ty, val |-> v]

\* WasmValue::val_type
val_type(wv) == wv.ty

\* RawWasmValue::from(WasmValue): the tag is dropped.
RawFrom(wv) == wv.val

\* ------------------------------------------------------------ instructions

Ins(op, a) == [op |-> op, a |-> a]

\* Block(args, end_offset) and Loop(args, end_offset) with block arguments
\* other than BlockArgs::Empty.
InsB(op, args, a) == [op |-> op, a |-> a, args |-> args]

\* ----------------------------------------------------------------- modules

FuncType(params, results) == [params |-> params, results |-> results]

Func(ty, locals, instrs) == [ty |-> ty, locals |-> locals, instructions |-> instrs]

\* add(i32, i32) -> i32 and pair() -> (i32, i64); no memory, no global.
ModAdd ==
  [ name |-> "add",
    funcs |-> <<
      Func(FuncType(<<"I32", "I32">>, <<"I32">>), <<>>,
           << Ins("LocalGet", 0), Ins("LocalGet", 1), Ins("I32Add", 0), Ins("EndFunc", 0) >>),
      Func(FuncType(<<>>, <<"I32", "I64">>), <<>>,
           << Ins("I32Const", 1), Ins("I64Const", 2), Ins("EndFunc", 0) >>) >>,
    memory_pages |-> <<>>,
    globals |-> <<>>,
    imports |-> <<>>, exports |-> {0, 1},
    table_types |-> <<>>, elements |-> <<>>, data |-> <<>>,
    start_func |-> <<>>, export_start |-> <<>> ]

\* count(n): a block/loop that adds 2 to global 0 n times and returns it.
ModCount ==
  [ name |-> "count",
    funcs |-> <<
      Func(FuncType(<<"I32">>, <<"I32">>), <<>>,
           << Ins("Block", 15), Ins("Loop", 13),
              Ins("LocalGet", 0), Ins("I32Eqz", 0), Ins("BrIf", 1),
              Ins("GlobalGet", 0), Ins("I32Const", 2), Ins("I32Add", 0), Ins("GlobalSet", 0),
              Ins("LocalGet", 0), Ins("I32Const", 1), Ins("I32Sub", 0), Ins("LocalSet", 0),
              Ins("Br", 0),
              Ins("EndBlockFrame", 0), Ins("EndBlockFrame", 0),
              Ins("GlobalGet", 0), Ins("EndFunc", 0) >>) >>,
    memory_pages |-> <<1>>,
    globals |-> << [ty |-> "I32", mutable |-> TRUE, init |-> 5] >>,
    imports |-> <<>>, exports |-> {0},
    table_types |-> <<>>, elements |-> <<>>, data |-> <<>>,
    start_func |-> <<>>, export_start |-> <<>> ]

\* fib(n), recursive; the result is kept in the declared local 1.
ModFib ==
  [ name |-> "fib",
    funcs |-> <<
      Func(FuncType(<<"I32">>, <<"I32">>), <<"I32">>,
           << Ins("LocalGet", 0), Ins("LocalSet", 1),
              Ins("Block", 15),
              Ins("LocalGet", 0), Ins("I32Const", 2), Ins("I32LtS", 0), Ins("BrIf", 0),
              Ins("LocalGet", 0), Ins("I32Const", 1), Ins("I32Sub", 0), Ins("Call", 0),
              Ins("LocalGet", 0), Ins("I32Const", 2), Ins("I32Sub", 0), Ins("Call", 0),
              Ins("I32Add", 0), Ins("LocalSet", 1),
              Ins("EndBlockFrame", 0),
              Ins("LocalGet", 1), Ins("EndFunc", 0) >>) >>,
    memory_pages |-> <<1>>,
    globals |-> <<>>,
    imports |-> <<>>, exports |-> {0},
    table_types |-> <<>>, elements |-> <<>>, data |-> <<>>,
    start_func |-> <<>>, export_start |-> <<>> ]

\* mem(n): mem[0] := n; mem[1] := mem[0] + 1; global 1 := mem[1]; returns mem[1].
ModMem ==
  [ name |-> "mem",
    funcs |-> <<
      Func(FuncType(<<"I32">>, <<"I32">>), <<>>,
           << Ins("I32Const", 0), Ins("LocalGet", 0), Ins("I32Store8", 0),
              Ins("I32Const", 1),
              Ins("I32Const", 0), Ins("I32Load8U", 0), Ins("I32Const", 1), Ins("I32Add", 0),
              Ins("I32Store8", 0),
              Ins("I32Const", 0), Ins("I32Load8U", 1), Ins("GlobalSet", 1),
              Ins("GlobalGet", 1), Ins("EndFunc", 0) >>) >>,
    memory_pages |-> <<1>>,
    globals |-> << [ty |-> "I32", mutable |-> FALSE, init |-> 9],
                   [ty |-> "I32", mutable |-> TRUE, init |-> 0] >>,
    imports |-> <<>>, exports |-> {0},
    table_types |-> <<>>, elements |-> <<>>, data |-> <<>>,
    start_func |-> <<>>, export_start |-> <<>> ]

\* trap(): writes global 0, then executes unreachable.
ModTrap ==
  [ name |-> "trap",
    funcs |-> <<
      Func(FuncType(<<>>, <<>>), <<>>,
           << Ins("I32Const", 7), Ins("GlobalSet", 0), Ins("Unreachable", 0),
              Ins("Nop", 0), Ins("EndFunc", 0) >>) >>,
    memory_pages |-> <<1>>,
    globals |-> << [ty |-> "I32", mutable |-> TRUE, init |-> 0] >>,
    imports |-> <<>>, exports |-> {0},
    table_types |-> <<>>, elements |-> <<>>, data |-> <<>>,
    start_func |-> <<>>, export_start |-> <<>> ]

\* spin(): a loop that never leaves.
ModSpin ==
  [ name |-> "spin",
    funcs |-> <<
      Func(FuncType(<<>>, <<>>), <<>>,
           << Ins("Loop", 3), Ins("Nop", 0), Ins("Br", 0), Ins("EndBlockFrame", 0),
              Ins("EndFunc", 0) >>) >>,
    memory_pages |-> <<>>,
    globals |-> << [ty |-> "I32", mutable |-> TRUE, init |-> 3] >>,
    imports |-> <<>>, exports |-> {0},
    table_types |-> <<>>, elements |-> <<>>, data |-> <<>>,
    start_func |-> <<>>, export_start |-> <<>> ]

\* flip(): global 0 := (global 0 = 0); returns global 0.
ModFlip ==
  [ name |-> "flip",
    funcs |-> <<
      Func(FuncType(<<>>, <<"I32">>), <<>>,
           << Ins("GlobalGet", 0), Ins("I32Eqz", 0), Ins("GlobalSet", 0),
              Ins("GlobalGet", 0), Ins("EndFunc", 0) >>) >>,
    memory_pages |-> <<1>>,
    globals |-> << [ty |-> "I32", mutable |-> TRUE, init |-> 0] >>,
    imports |-> <<>>, exports |-> {0},
    table_types |-> <<>>, elements |-> <<>>, data |-> <<>>,
    start_func |-> <<>>, export_start |-> <<>> ]

Modules == << ModAdd, ModCount, ModFib, ModMem, ModTrap, ModSpin, ModFlip >>

ModuleIds == 1..Len(Modules)

\* hello: the start function (function 1) adds 1 to global 0 and sets
\* mem[1] := mem[0] + 1, mem[0] being laid down by the data segment;
\* reef_main() returns mem[1] + global 0.
ModHello ==
  [ name |-> "hello",
    funcs |-> <<
      Func(FuncType(<<>>, <<"I32">>), <<>>,
           << Ins("I32Const", 0), Ins("I32Load8U", 1), Ins("GlobalGet", 0), Ins("I32Add", 0),
              Ins("EndFunc", 0) >>),
      Func(FuncType(<<>>, <<>>), <<>>,
           << Ins("GlobalGet", 0), Ins("I32Const", 1), Ins("I32Add", 0), Ins("GlobalSet", 0),
              Ins("I32Const", 1),
              Ins("I32Const", 0), Ins("I32Load8U", 0), Ins("I32Const", 1), Ins("I32Add", 0),
              Ins("I32Store8", 0), Ins("EndFunc", 0) >>) >>,
    memory_pages |-> <<1>>,
    globals |-> << [ty |-> "I32", mutable |-> TRUE, init |-> 0] >>,
    imports |-> <<>>, exports |-> {0},
    table_types |-> <<>>, elements |-> <<>>,
    data |-> << [kind |-> "Active", mem |-> 0, offset |-> 0, bytes |-> <<7>>] >>,
    start_func |-> <<1>>, export_start |-> <<>> ]

\* The start function (function 1) writes global 0 and executes unreachable.
ModStartTrap ==
  [ name |-> "starttrap",
    funcs |-> <<
      Func(FuncType(<<>>, <<>>), <<>>, << Ins("Nop", 0), Ins("EndFunc", 0) >>),
      Func(FuncType(<<>>, <<>>), <<>>,
           << Ins("I32Const", 5), Ins("GlobalSet", 0), Ins("Unreachable", 0),
              Ins("EndFunc", 0) >>) >>,
    memory_pages |-> <<1>>,
    globals |-> << [ty |-> "I32", mutable |-> TRUE, init |-> 0] >>,
    imports |-> <<>>, exports |-> {0},
    table_types |-> <<>>, elements |-> <<>>, data |-> <<>>,
    start_func |-> <<1>>, export_start |-> <<>> ]

\* A table of two slots; the third element segment runs past its end.
ModElemBad ==
  [ name |-> "elembad",
    funcs |-> << Func(FuncType(<<>>, <<>>), <<>>, << Ins("Nop", 0), Ins("EndFunc", 0) >>) >>,
    memory_pages |-> <<1>>,
    globals |-> <<>>,
    imports |-> <<>>, exports |-> {0},
    table_types |-> <<2>>,
    elements |-> << [kind |-> "Active", table |-> 0, offset |-> 0, items |-> <<0>>],
                    [kind |-> "Passive", table |-> 0, offset |-> 0, items |-> <<0, 0>>],
                    [kind |-> "Active", table |-> 0, offset |-> 1, items |-> <<0, 0>>],
                    [kind |-> "Active", table |-> 0, offset |-> 1, items |-> <<0>>] >>,
    data |-> <<>>,
    start_func |-> <<>>, export_start |-> <<>> ]

\* A memory of one page; the second data segment runs past its end.  The
\* function exported as _start is function 1.
ModDataBad ==
  [ name |-> "databad",
    funcs |-> << Func(FuncType(<<>>, <<>>), <<>>, << Ins("Nop", 0), Ins("EndFunc", 0) >>),
                 Func(FuncType(<<>>, <<>>), <<>>, << Ins("Nop", 0), Ins("EndFunc", 0) >>) >>,
    memory_pages |-> <<1>>,
    globals |-> <<>>,
    imports |-> <<>>, exports |-> {0},
    table_types |-> <<>>, elements |-> <<>>,
    data |-> << [kind |-> "Active", mem |-> 0, offset |-> 0, bytes |-> <<7>>],
                [kind |-> "Active", mem |-> 0, offset |-> PageSize - 1, bytes |-> <<8, 9>>],
                [kind |-> "Active", mem |-> 0, offset |-> 1, bytes |-> <<6>>] >>,
    start_func |-> <<>>, export_start |-> << [kind |-> "Func", index |-> 1] >> ]

\* poke(addr): adds 1 to global 0, sets mem[addr] := 9 and returns mem[addr];
\* boom(): calls, inside a block, function 2, which writes global 0 and
\* executes unreachable.
ModGuard ==
  [ name |-> "guard",
    funcs |-> <<
      Func(FuncType(<<"I32">>, <<"I32">>), <<>>,
           << Ins("GlobalGet", 0), Ins("I32Const", 1), Ins("I32Add", 0), Ins("GlobalSet", 0),
              Ins("LocalGet", 0), Ins("I32Const", 9), Ins("I32Store8", 0),
              Ins("LocalGet", 0), Ins("I32Load8U", 0), Ins("EndFunc", 0) >>),
      Func(FuncType(<<>>, <<>>), <<>>,
           << Ins("Block", 2), Ins("Call", 2), Ins("EndBlockFrame", 0), Ins("EndFunc", 0) >>),
      Func(FuncType(<<>>, <<>>), <<>>,
           << Ins("I32Const", 3), Ins("GlobalSet", 0), Ins("Unreachable", 0),
              Ins("EndFunc", 0) >>) >>,
    memory_pages |-> <<1>>,
    globals |-> << [ty |-> "I32", mutable |-> TRUE, init |-> 0] >>,
    imports |-> <<>>, exports |-> {0, 1},
    table_types |-> <<>>, elements |-> <<>>, data |-> <<>>,
    start_func |-> <<>>, export_start |-> <<>> ]

\* The modules with a start function, segments or guarded accesses.
StartModules == << ModHello, ModStartTrap, ModElemBad, ModDataBad, ModGuard >>

\* Imports reef.log; function 1 does nothing, function 2, exported as _start,
\* sets global 0 to 7.  Function 0 is the import.
ModLinkLog ==
  [ name |-> "linklog",
    imports |-> << [module |-> "reef", name |-> "log", kind |-> "Func",
                    ty |-> FuncType(<<"I32", "I32">>, <<>>)] >>,
    funcs |-> <<
      Func(FuncType(<<>>, <<>>), <<>>, << Ins("Nop", 0), Ins("EndFunc", 0) >>),
      Func(FuncType(<<>>, <<>>), <<"I32">>,
           << Ins("I32Const", 7), Ins("GlobalSet", 0), Ins("EndFunc", 0) >>) >>,
    memory_pages |-> <<1>>,
    globals |-> << [ty |-> "I32", mutable |-> TRUE, init |-> 0] >>,
    exports |-> {1},
    table_types |-> <<>>, elements |-> <<>>, data |-> <<>>,
    start_func |-> <<>>, export_start |-> << [kind |-> "Func", index |-> 2] >> ]

\* Imports two functions, a global, a memory and a table, and defines one of
\* each besides.  Functions 0 and 1 are the imports; function 2, the declared
\* start function, sets global 1 to 1; function 3, exported as _start, sets
\* it to 2.  Global 0 is the import.
ModLinkAll ==
  [ name |-> "linkall",
    imports |-> << [module |-> "reef", name |-> "log", kind |-> "Func",
                    ty |-> FuncType(<<"I32", "I32">>, <<>>)],
                   [module |-> "env", name |-> "glob", kind |-> "Global",
                    ty |-> [ty |-> "I32", mutable |-> FALSE]],
                   [module |-> "env", name |-> "mem", kind |-> "Memory", ty |-> 1],
                   [module |-> "env", name |-> "tab", kind |-> "Table", ty |-> 1],
                   [module |-> "reef", name |-> "progress", kind |-> "Func",
                    ty |-> FuncType(<<"I32">>, <<>>)] >>,
    funcs |-> <<
      Func(FuncType(<<>>, <<>>), <<>>,
           << Ins("I32Const", 1), Ins("GlobalSet", 1), Ins("EndFunc", 0) >>),
      Func(FuncType(<<>>, <<"I32">>), <<>>,
           << Ins("I32Const", 2), Ins("GlobalSet", 1), Ins("I32Const", 2),
              Ins("EndFunc", 0) >>) >>,
    memory_pages |-> <<1>>,
    globals |-> << [ty |-> "I32", mutable |-> TRUE, init |-> 0] >>,
    exports |-> {2},
    table_types |-> <<2>>, elements |-> <<>>, data |-> <<>>,
    start_func |-> <<2>>, export_start |-> << [kind |-> "Func", index |-> 3] >> ]

\* Imports reef.progress as a function of an i64; the export named _start is
\* the memory.
ModLinkType ==
  [ name |-> "linktype",
    imports |-> << [module |-> "reef", name |-> "progress", kind |-> "Func",
                    ty |-> FuncType(<<"I64">>, <<>>)] >>,
    funcs |-> << Func(FuncType(<<>>, <<>>), <<>>, << Ins("Nop", 0), Ins("EndFunc", 0) >>) >>,
    memory_pages |-> <<1>>,
    globals |-> <<>>,
    exports |-> {1},
    table_types |-> <<>>, elements |-> <<>>, data |-> <<>>,
    start_func |-> <<>>, export_start |-> << [kind |-> "Memory", index |-> 0] >> ]

\* Imports nothing; the export named _start is the memory.
ModLinkNone ==
  [ name |-> "linknone",
    imports |-> <<>>,
    funcs |-> << Func(FuncType(<<>>, <<>>), <<>>, << Ins("Nop", 0), Ins("EndFunc", 0) >>) >>,
    memory_pages |-> <<1>>,
    globals |-> << [ty |-> "I32", mutable |-> TRUE, init |-> 0] >>,
    exports |-> {0},
    table_types |-> <<>>, elements |-> <<>>, data |-> <<>>,
    start_func |-> <<>>, export_start |-> << [kind |-> "Memory", index |-> 0] >> ]

\* Imports reef.log; the element segment runs past the end of the table of
\* one slot, and the second data segment past the end of the memory.
ModLinkBad ==
  [ name |-> "linkbad",
    imports |-> << [module |-> "reef", name |-> "log", kind |-> "Func",
                    ty |-> FuncType(<<"I32", "I32">>, <<>>)] >>,
    funcs |-> << Func(FuncType(<<>>, <<>>), <<>>, << Ins("Nop", 0), Ins("EndFunc", 0) >>) >>,
    memory_pages |-> <<1>>,
    globals |-> <<>>,
    exports |-> {1},
    table_types |-> <<1>>,
    elements |-> << [kind |-> "Active", table |-> 0, offset |-> 0, items |-> <<1, 1>>] >>,
    data |-> << [kind |-> "Active", mem |-> 0, offset |-> 0, bytes |-> <<7>>],
                [kind |-> "Active", mem |-> 0, offset |-> PageSize, bytes |-> <<8>>] >>,
    start_func |-> <<>>, export_start |-> <<>> ]

\* Imports reef.log; the element segment fits, the second data segment runs
\* past the end of the memory.
ModLinkData ==
  [ModLinkBad EXCEPT !.name = "linkdata",
                     !.elements = << [kind |-> "Active", table |-> 0, offset |-> 0,
                                      items |-> <<1>>] >>]

\* The modules with imports.
LinkModules == << ModLinkLog, ModLinkAll, ModLinkType, ModLinkNone, ModLinkBad, ModLinkData >>

\* Function 0 divides two i32, function 1 two i64.
ModDiv ==
  [ name |-> "div",
    funcs |-> <<
      Func(FuncType(<<"I32", "I32">>, <<"I32">>), <<>>,
           << Ins("LocalGet", 0), Ins("LocalGet", 1), Ins("I32DivS", 0), Ins("EndFunc", 0) >>),
      Func(FuncType(<<"I64", "I64">>, <<"I64">>), <<>>,
           << Ins("LocalGet", 0), Ins("LocalGet", 1), Ins("I64DivS", 0), Ins("EndFunc", 0) >>) >>,
    memory_pages |-> <<>>,
    globals |-> <<>>,
    imports |-> <<>>, exports |-> {0, 1},
    table_types |-> <<>>, elements |-> <<>>, data |-> <<>>,
    start_func |-> <<>>, export_start |-> <<>> ]

\* Function 0: 0 when br_if leaves the block on its argument, 1 when it falls
\* through.  Function 1: a br out of a block of type (i32) -> (i32, i32) with
\* four cells above the height at entry.  Function 2: a loop with one
\* parameter counting its argument down, left by a br_if to the enclosing
\* block of result type i32.
ModBr ==
  [ name |-> "br",
    funcs |-> <<
      Func(FuncType(<<"I32">>, <<"I32">>), <<"I32">>,
           << Ins("Block", 5), Ins("LocalGet", 0), Ins("BrIf", 0),
              Ins("I32Const", 1), Ins("LocalSet", 1), Ins("EndBlockFrame", 0),
              Ins("LocalGet", 1), Ins("EndFunc", 0) >>),
      Func(FuncType(<<"I32">>, <<"I32", "I32">>), <<>>,
           << Ins("I32Const", 5), InsB("Block", "FuncType", 6), Ins("I32Const", 9),
              Ins("I32Const", 8), Ins("LocalGet", 0), Ins("I32Const", 3), Ins("Br", 0),
              Ins("EndBlockFrame", 0), Ins("EndFunc", 0) >>),
      Func(FuncType(<<"I32">>, <<"I32">>), <<>>,
           << InsB("Block", "Type", 13), Ins("I32Const", 100), InsB("Loop", "FuncType", 10),
              Ins("I32Const", 77), Ins("LocalGet", 0), Ins("I32Eqz", 0), Ins("BrIf", 1),
              Ins("LocalGet", 0), Ins("I32Const", 1), Ins("I32Sub", 0), Ins("LocalTee", 0),
              Ins("Br", 0), Ins("EndBlockFrame", 0), Ins("EndBlockFrame", 0),
              Ins("EndFunc", 0) >>) >>,
    memory_pages |-> <<>>,
    globals |-> <<>>,
    imports |-> <<>>, exports |-> {0, 1, 2},
    table_types |-> <<>>, elements |-> <<>>, data |-> <<>>,
    start_func |-> <<>>, export_start |-> <<>> ]

\* Function 0 goes through select, the local, numeric, global and memory
\* instructions and a call of function 1, which adds 1 to its argument.
ModOps ==
  [ name |-> "ops",
    funcs |-> <<
      Func(FuncType(<<"I32">>, <<"I32">>), <<"I32">>,
           << Ins("I32Const", 8), Ins("I32Const", 9), Ins("LocalGet", 0), Ins("Select", 0),
              Ins("LocalTee", 1), Ins("I32Const", 2), Ins("I32Add", 0),
              Ins("LocalGet", 1), Ins("I32Sub", 0), Ins("I32Const", 2), Ins("I32LtS", 0),
              Ins("I32Eqz", 0), Ins("Drop", 0),
              Ins("I32Const", 4), Ins("Call", 1), Ins("GlobalSet", 0),
              Ins("I32Const", 0), Ins("GlobalGet", 0), Ins("I32Store8", 0),
              Ins("LocalGet", 0), Ins("I32Load8U", 0), Ins("I32Const", 5), Ins("I32Eq", 0),
              Ins("Nop", 0), Ins("LocalGet", 0), Ins("I32Const", 2), Ins("I32DivS", 0),
              Ins("LocalSet", 1), Ins("EndFunc", 0) >>),
      Func(FuncType(<<"I32">>, <<"I32">>), <<>>,
           << Ins("LocalGet", 0), Ins("I32Const", 1), Ins("I32Add", 0), Ins("EndFunc", 0) >>) >>,
    memory_pages |-> <<1>>,
    globals |-> << [ty |-> "I32", mutable |-> TRUE, init |-> 0] >>,
    imports |-> <<>>, exports |-> {0},
    table_types |-> <<>>, elements |-> <<>>, data |-> <<>>,
    start_func |-> <<>>, export_start |-> <<>> ]

\* Function 0 returns with 1 on the stack, in front of a drop and a 2.
\* Function 1 returns inside a block, in front of a write of 7 to global 0.
\* Function 2 calls, inside a block, function 3 and keeps the result in
\* local 1.  Function 3 leaves a block by br_if on its argument, in front of
\* an unreachable, and divides 10 by the argument.  Function 4 is a loop
\* around a nop, followed by a 1.
ModRet ==
  [ name |-> "ret",
    funcs |-> <<
      Func(FuncType(<<>>, <<"I32">>), <<>>,
           << Ins("I32Const", 1), Ins("Return", 0), Ins("Drop", 0), Ins("I32Const", 2),
              Ins("EndFunc", 0) >>),
      Func(FuncType(<<>>, <<>>), <<>>,
           << Ins("Block", 4), Ins("Return", 0), Ins("I32Const", 7), Ins("GlobalSet", 0),
              Ins("EndBlockFrame", 0), Ins("EndFunc", 0) >>),
      Func(FuncType(<<"I32">>, <<"I32">>), <<"I32">>,
           << Ins("Block", 4), Ins("LocalGet", 0), Ins("Call", 3), Ins("LocalSet", 1),
              Ins("EndBlockFrame", 0), Ins("LocalGet", 1), Ins("EndFunc", 0) >>),
      Func(FuncType(<<"I32">>, <<"I32">>), <<>>,
           << Ins("Block", 4), Ins("LocalGet", 0), Ins("BrIf", 0), Ins("Unreachable", 0),
              Ins("EndBlockFrame", 0), Ins("I32Const", 10), Ins("LocalGet", 0),
              Ins("I32DivS", 0), Ins("EndFunc", 0) >>),
      Func(FuncType(<<>>, <<"I32">>), <<>>,
           << Ins("Loop", 2), Ins("Nop", 0), Ins("EndBlockFrame", 0), Ins("I32Const", 1),
              Ins("EndFunc", 0) >>) >>,
    memory_pages |-> <<1>>,
    globals |-> << [ty |-> "I32", mutable |-> TRUE, init |-> 0] >>,
    imports |-> <<>>, exports |-> {0, 1, 2, 4},
    table_types |-> <<>>, elements |-> <<>>, data |-> <<>>,
    start_func |-> <<>>, export_start |-> <<>> ]

\* A type section in another order than the functions: type 0 is
\* (i32) -> i32 and type 1 is () -> i32, function 0 has type 1 and function 1
\* has type 0.  Function 0 calls function 1 with 3, above a 6, and adds.
ModTypes ==
  [ name |-> "types",
    func_types |-> << FuncType(<<"I32">>, <<"I32">>), FuncType(<<>>, <<"I32">>) >>,
    funcs |-> <<
      Func(FuncType(<<>>, <<"I32">>), <<>>,
           << Ins("I32Const", 6), Ins("I32Const", 3), Ins("Call", 1), Ins("I32Add", 0),
              Ins("EndFunc", 0) >>),
      Func(FuncType(<<"I32">>, <<"I32">>), <<>>,
           << Ins("I32Const", 1), Ins("EndFunc", 0) >>) >>,
    memory_pages |-> <<>>,
    globals |-> <<>>,
    imports |-> <<>>, exports |-> {0},
    table_types |-> <<>>, elements |-> <<>>, data |-> <<>>,
    start_func |-> <<>>, export_start |-> <<>> ]

\* The modules run one instruction at a time.
ExecModules == << ModDiv, ModBr, ModOps, ModRet, ModTypes >>

Library == Modules \o StartModules \o LinkModules \o ExecModules

ExecModuleIds == (Len(Library) - Len(ExecModules) + 1)..Len(Library)

LinkModuleIds == (Len(Modules) + Len(StartModules) + 1)..(Len(Modules) + Len(StartModules) + Len(LinkModules))

StartModuleIds == (Len(Modules) + 1)..(Len(Modules) + Len(StartModules))

\* Module.func_types: the type section.  A module that does not spell it out
\* has one type per function, in the order of the functions.
func_types(m) ==
  IF "func_types" \in DOMAIN m THEN m.func_types
  ELSE [i \in 1..Len(m.funcs) |-> m.funcs[i].ty]

\* Instance::func_ty: the type section indexed by the function address.
func_ty(m, addr) == func_types(m)[addr + 1]

\* ------------------------------------------------------------------- stack

Top(s) == s[Len(s)]

Pop(s) == SubSeq(s, 1, Len(s) - 1)

\* ValueStack::last_n: the top n cells, in stack order.
last_n(values, n) == SubSeq(values, Len(values) - n + 1, Len(values))

\* ValueStack::trim: cut the value stack down to height n.
trim(values, n) == SubSeq(values, 1, n)

Zeros(n) == [i \in 1..n |-> 0]

\* CallFrame::new / CallFrame::new_raw: the parameters, then one zero cell per
\* declared local; the frame starts at instruction 0 with no block frame.
CallFrameNew(func_ptr, params, locals) ==
  [ func_ptr |-> func_ptr, instr_ptr |-> 0,
    locals |-> params \o Zeros(Len(locals)), block_frames |-> <<>> ]

\* Stack::new: an empty value stack and the one call frame.
StackNew(call_frame) == [values |-> <<>>, call_stack |-> <<call_frame>>]

\* BlockArgs, the result arity: none for BlockArgs::Empty, one for
\* BlockArgs::Type; the one BlockArgs::FuncType the modules use is the block
\* type (i32) -> (i32, i32).
BlockArity(args) == IF args = "Empty" THEN 0 ELSE IF args = "Type" THEN 1 ELSE 2

\* BlockArgs, the parameter arity.
BlockParams(args) == IF args = "FuncType" THEN 1 ELSE 0

\* The arity of a label: that of the results of a block, that of the
\* parameters of a loop.
LabelArity(target) ==
  IF target.block = "Loop" THEN BlockParams(target.args) ELSE BlockArity(target.args)

\* An exec_one outcome.
Res(res, es) == [res |-> res, trap |-> None, es |-> es]

TrapRes(kind, es) == [res |-> "Trap", trap |-> kind, es |-> es]

\* A faulty break: the value stack is cut to the height recorded at entry and
\* the cells of the label are lost.
break_to_dropping(es, label) ==
  LET cf == es.cf
      n  == Len(cf.block_frames)
  IN IF label >= n THEN Res("Err", es)
     ELSE
       LET target == cf.block_frames[n - label]
           vals   == trim(es.values, target.stack_ptr)
       IN IF target.block = "Loop"
          THEN Res("Ok", [es EXCEPT !.values = vals,
                                    !.cf.instr_ptr = target.instr_ptr,
                                    !.cf.block_frames = SubSeq(cf.block_frames, 1, n - label)])
          ELSE Res("Ok", [es EXCEPT !.values = vals,
                                    !.cf.instr_ptr = target.end_instr_ptr,
                                    !.cf.block_frames = SubSeq(cf.block_frames, 1, n - label - 1)])

\* CallFrame::break_to(label): the label-th enclosing block frame counted from
\* the innermost.  A loop target keeps its frame and continues at the loop's
\* own instruction (the dispatch loop then steps past it); any other target is
\* popped and execution continues at its end.  The label's cells are moved
\* down to the height recorded at entry.
break_to(es, label) ==
  LET cf == es.cf
      n  == Len(cf.block_frames)
  IN IF label >= n THEN Res("Err", es)
     ELSE
       LET target == cf.block_frames[n - label]
           arity  == LabelArity(target)
           cells  == last_n(es.values, arity)
           vals   == trim(es.values, target.stack_ptr) \o cells
       IN IF target.block = "Loop"
          THEN Res("Ok", [es EXCEPT !.values = vals,
                                    !.cf.instr_ptr = target.instr_ptr,
                                    !.cf.block_frames = SubSeq(cf.block_frames, 1, n - label)])
          ELSE Res("Ok", [es EXCEPT !.values = vals,
                                    !.cf.instr_ptr = target.end_instr_ptr,
                                    !.cf.block_frames = SubSeq(cf.block_frames, 1, n - label - 1)])

\* ------------------------------------------------------------ interpreter
\* An execution state es is the current call frame cf, the Stack (values,
\* call_stack) and the store contents of the instance (memories, globals).

Push1(es, v) == Res("Ok", [es EXCEPT !.values = Append(@, v)])

\* Linear-memory and global instructions.  The 8-bit store keeps the low byte;
\* an access past the end of the data traps.
exec_one_ext(es, instr) ==
  LET values == es.values
      n == Len(values)
  IN CASE instr.op = "GlobalGet" ->
            Push1(es, es.globals[instr.a + 1].value)
       [] instr.op = "GlobalSet" ->
            IF n < 1 THEN Res("Err", es)
            ELSE Res("Ok", [es EXCEPT !.values = Pop(values),
                                      !.globals[instr.a + 1].value = Top(values)])
       [] instr.op = "I32Store8" ->
            IF n < 2 \/ Len(es.memories) = 0 THEN Res("Err", es)
            ELSE LET val  == values[n]
                     addr == values[n - 1]
                     rest == SubSeq(values, 1, n - 2)
                 IN IF addr < 0 \/ addr + instr.a + 1 > Len(es.memories[1].data)
                    THEN TrapRes("OutOfBoundsMemoryAccess", [es EXCEPT !.values = rest])
                    ELSE Res("Ok", [es EXCEPT !.values = rest,
                                              !.memories[1].data[addr + instr.a + 1] = val % 256])
       [] instr.op = "I32Load8U" ->
            IF n < 1 \/ Len(es.memories) = 0 THEN Res("Err", es)
            ELSE LET addr == values[n]
                 IN IF addr < 0 \/ addr + instr.a + 1 > Len(es.memories[1].data)
                    THEN TrapRes("OutOfBoundsMemoryAccess", [es EXCEPT !.values = Pop(values)])
                    ELSE Res("Ok", [es EXCEPT !.values =
                                      Append(Pop(values), es.memories[1].data[addr + instr.a + 1])])
       [] OTHER -> Res("Panic", es)

\* A block or loop entry: the frame records where it is, where it ends and the
\* value stack height.
BlockFrame(cf, instr, height, kind) ==
  [ instr_ptr |-> cf.instr_ptr, end_instr_ptr |-> cf.instr_ptr + instr.a,
    stack_ptr |-> height,
    args |-> IF "args" \in DOMAIN instr THEN instr.args ELSE "Empty",
    block |-> kind ]

\* A binary operator: pops b (top) and a, pushes f(a, b).
BinOp(es, r) ==
  Res("Ok", [es EXCEPT !.values = Append(SubSeq(@, 1, Len(@) - 2), r)])

\* The quotient of a by b rounded towards zero, for b # 0 and not
\* (a = I32Min /\ b = -1), computed without leaving 32 bits.
TruncDiv(a, b) ==
  IF b = I32Min THEN (IF a = I32Min THEN 1 ELSE 0)
  ELSE IF b > 0
       THEN (IF a >= 0 THEN a \div b ELSE (a + b - 1) \div b)
       ELSE (IF a >= 0 THEN -(a \div (-b)) ELSE -((a - b - 1) \div (-b)))

\* A faulty division: INT_MIN / -1 wraps to INT_MIN and x / 0 gives 0.
div_instr_wrapping(es, a, b, overflow) ==
  BinOp(es, IF b = 0 THEN 0 ELSE IF overflow THEN a ELSE TruncDiv(a, b))

\* div_instr! on integers: both operands are popped; a zero divisor traps
\* IntegerDivByZero and INT_MIN / -1 (overflow) traps IntegerOverflow, with
\* nothing pushed; otherwise the quotient rounded towards zero is pushed.
div_instr(es, a, b, overflow) ==
  LET rest == [es EXCEPT !.values = SubSeq(@, 1, Len(@) - 2)]
  IN IF b = 0 THEN TrapRes("IntegerDivByZero", rest)
     ELSE IF overflow THEN TrapRes("IntegerOverflow", rest)
     ELSE BinOp(es, TruncDiv(a, b))

\* A faulty call: the frame of the caller is kept as it is, pointing at the
\* call.
CallerFrame_same(cf) == cf

\* The frame of the caller as a call pushes it: stepped past the call.
CallerFrame(cf) == [cf EXCEPT !.instr_ptr = @ + 1]

\* exec_one: one instruction on the current call frame.
exec_one(es, instr, m) ==
  LET cf     == es.cf
      values == es.values
      n      == Len(values)
      a      == IF n >= 2 THEN values[n - 1] ELSE 0
      b      == IF n >= 1 THEN values[n] ELSE 0
  IN CASE instr.op = "Nop" -> Res("Ok", es)
       [] instr.op = "Unreachable" -> TrapRes("Unreachable", es)
       [] instr.op = "Drop" ->
            IF n < 1 THEN Res("Err", es) ELSE Res("Ok", [es EXCEPT !.values = Pop(values)])
       [] instr.op = "Select" ->
            IF n < 3 THEN Res("Err", es)
            ELSE IF b = 0
                 THEN Res("Ok", [es EXCEPT !.values = Append(SubSeq(values, 1, n - 3), a)])
                 ELSE Res("Ok", [es EXCEPT !.values = SubSeq(values, 1, n - 2)])
       [] instr.op = "Return" -> Res("Ok", es)
       [] instr.op = "Call" ->
            IF instr.a + 1 > Len(m.funcs) THEN Res("Err", es)
            ELSE LET func    == m.funcs[instr.a + 1]
                     fty     == func_ty(m, instr.a)
                     k       == Len(fty.params)
                 IN IF n < k THEN Res("Err", es)
                    ELSE LET params     == last_n(values, k)
                             call_frame == CallFrameNew(instr.a, params, func.locals)
                             caller     == CallerFrame(cf)
                         IN Res("Call", [es EXCEPT !.values = SubSeq(values, 1, n - k),
                                                   !.call_stack = Append(@, caller),
                                                   !.cf = call_frame])
       [] instr.op = "Loop" ->
            Res("Ok", [es EXCEPT !.cf.block_frames =
                                    Append(@, BlockFrame(cf, instr, n, "Loop"))])
       [] instr.op = "Block" ->
            Res("Ok", [es EXCEPT !.cf.block_frames =
                                    Append(@, BlockFrame(cf, instr, n, "Block"))])
       [] instr.op = "BrTable" -> Res("Panic", es)
       [] instr.op = "Br" -> break_to(es, instr.a)
       [] instr.op = "BrIf" ->
            IF n < 1 THEN Res("Err", es)
            ELSE IF b > 0
                 THEN break_to([es EXCEPT !.values = Pop(values)], instr.a)
                 ELSE Res("Ok", [es EXCEPT !.values = Pop(values)])
       [] instr.op = "EndFunc" ->
            IF Len(cf.block_frames) > 0 THEN Res("Panic", es)
            ELSE IF Len(es.call_stack) = 0 THEN Res("Return", es)
            ELSE Res("Call", [es EXCEPT !.cf = Top(es.call_stack),
                                        !.call_stack = Pop(@)])
       [] instr.op = "EndBlockFrame" ->
            IF Len(cf.block_frames) = 0 THEN Res("Panic", es)
            ELSE LET block  == Top(cf.block_frames)
                     blocks == Pop(cf.block_frames)
                 IN IF block.args # "Empty" THEN Res("Panic", es)
                    ELSE IF block.block = "Loop"
                    THEN Res("Ok", [es EXCEPT !.values = trim(values, block.stack_ptr),
                                              !.cf.instr_ptr = block.instr_ptr,
                                              !.cf.block_frames = Append(blocks, block)])
                    ELSE Res("Ok", [es EXCEPT !.values = trim(values, block.stack_ptr),
                                              !.cf.block_frames = blocks])
       [] instr.op = "LocalGet" -> Push1(es, cf.locals[instr.a + 1])
       [] instr.op = "LocalSet" ->
            IF n < 1 THEN Res("Err", es)
            ELSE Res("Ok", [es EXCEPT !.values = Pop(values),
                                      !.cf.locals[instr.a + 1] = b])
       [] instr.op = "LocalTee" ->
            IF n < 1 THEN Res("Err", es)
            ELSE Res("Ok", [es EXCEPT !.cf.locals[instr.a + 1] = b])
       [] instr.op = "I32Const" -> Push1(es, instr.a)
       [] instr.op = "I64Const" -> Push1(es, instr.a)
       [] instr.op = "I32Add" ->
            IF n < 2 THEN Res("Err", es) ELSE BinOp(es, WrapAdd(a, b))
       [] instr.op = "I32Sub" ->
            IF n < 2 THEN Res("Err", es) ELSE BinOp(es, WrapSub(a, b))
       [] instr.op = "I32LtS" ->
            IF n < 2 THEN Res("Err", es) ELSE BinOp(es, IF a < b THEN 1 ELSE 0)
       [] instr.op = "I32DivS" ->
            IF n < 2 THEN Res("Err", es) ELSE div_instr(es, a, b, a = I32Min /\ b = -1)
       [] instr.op = "I64DivS" ->
            \* the least i64 is outside the integers a cell of the model holds
            IF n < 2 THEN Res("Err", es) ELSE div_instr(es, a, b, FALSE)
       [] instr.op = "I32Eq" ->
            IF n < 2 THEN Res("Err", es) ELSE BinOp(es, IF a = b THEN 1 ELSE 0)
       [] instr.op = "I32Eqz" ->
            IF n < 1 THEN Res("Err", es)
            ELSE Res("Ok", [es EXCEPT !.values = Append(Pop(values), IF b = 0 THEN 1 ELSE 0)])
       [] OTHER -> exec_one_ext(es, instr)

\* A faulty dispatch: a trap takes the memories out of the store.
dispatch_poison(es, m) ==
  LET instrs == m.funcs[es.cf.func_ptr + 1].instructions
  IN IF es.cf.instr_ptr + 1 > Len(instrs)
     THEN [kind |-> "Err", trap |-> None, es |-> es]
     ELSE Bind(exec_one(es, instrs[es.cf.instr_ptr + 1], m), LAMBDA r :
            CASE r.res = "Call" -> [kind |-> "Continue", trap |-> None, es |-> r.es]
              [] r.res = "Return" -> [kind |-> "Return", trap |-> None, es |-> r.es]
              [] r.res = "Ok" ->
                   [kind |-> "Continue", trap |-> None,
                    es |-> [r.es EXCEPT !.cf.instr_ptr = @ + 1]]
              [] r.res = "Trap" ->
                   [kind |-> "Trap", trap |-> r.trap,
                    es |-> [r.es EXCEPT !.memories = <<>>,
                                        !.call_stack =
                                          Append(@, [r.es.cf EXCEPT !.instr_ptr = @ + 1])]]
              [] OTHER -> [kind |-> r.res, trap |-> None, es |-> r.es])

\* A faulty dispatch: a trap is returned without the call frame being pushed
\* back.
dispatch_dropping(es, m) ==
  LET instrs == m.funcs[es.cf.func_ptr + 1].instructions
  IN IF es.cf.instr_ptr + 1 > Len(instrs)
     THEN [kind |-> "Err", trap |-> None, es |-> es]
     ELSE Bind(exec_one(es, instrs[es.cf.instr_ptr + 1], m), LAMBDA r :
            CASE r.res = "Call" -> [kind |-> "Continue", trap |-> None, es |-> r.es]
              [] r.res = "Return" -> [kind |-> "Return", trap |-> None, es |-> r.es]
              [] r.res = "Ok" ->
                   [kind |-> "Continue", trap |-> None,
                    es |-> [r.es EXCEPT !.cf.instr_ptr = @ + 1]]
              [] r.res = "Trap" -> [kind |-> "Trap", trap |-> r.trap, es |-> r.es]
              [] OTHER -> [kind |-> r.res, trap |-> None, es |-> r.es])

\* One turn of the dispatch loop of exec: fetch the instruction at
\* cf.instr_ptr, execute it, and act on the ExecResult.  A trap steps the
\* pointer and pushes the call frame back before the error is returned.
dispatch(es, m) ==
  LET instrs == m.funcs[es.cf.func_ptr + 1].instructions
  IN IF es.cf.instr_ptr + 1 > Len(instrs)
     THEN [kind |-> "Err", trap |-> None, es |-> es]
     ELSE Bind(exec_one(es, instrs[es.cf.instr_ptr + 1], m), LAMBDA r :
            CASE r.res = "Call" -> [kind |-> "Continue", trap |-> None, es |-> r.es]
              [] r.res = "Return" -> [kind |-> "Return", trap |-> None, es |-> r.es]
              [] r.res = "Ok" ->
                   [kind |-> "Continue", trap |-> None,
                    es |-> [r.es EXCEPT !.cf.instr_ptr = @ + 1]]
              [] r.res = "Trap" ->
                   [kind |-> "Trap", trap |-> r.trap,
                    es |-> [r.es EXCEPT !.call_stack =
                               Append(@, [r.es.cf EXCEPT !.instr_ptr = @ + 1])]]
              [] OTHER -> [kind |-> r.res, trap |-> None, es |-> r.es])

\* One turn of the budgeted loop on a loop state ls: a dispatch, counted as one
\* cycle and recorded in the trace, unless the loop has already ended.
exec_turn(ls, m) ==
  IF ls.outcome # "Running" THEN ls
  ELSE Bind(dispatch(ls.es, m), LAMBDA d :
         [ outcome |-> IF d.kind = "Continue" THEN "Running" ELSE d.kind,
           trap |-> d.trap, cycles |-> ls.cycles + 1,
           trace |-> Append(ls.trace, <<ls.es.cf.func_ptr, ls.es.cf.instr_ptr>>),
           es |-> d.es ])

\* n turns of the loop (split in halves to keep the evaluation shallow).
RECURSIVE exec_turns(_, _, _)
exec_turns(ls0, m, n0) ==
  CHOOSE out \in
    { IF n = 0 \/ ls.outcome # "Running" THEN ls
      ELSE IF n = 1 THEN exec_turn(ls, m)
      ELSE exec_turns(exec_turns(ls, m, n \div 2), m, n - (n \div 2))
      : ls \in {ls0}, n \in {n0} } : TRUE

\* The budgeted dispatch loop: before each dispatch the cycle count is
\* compared with max_cycles; on exhaustion the current call frame is pushed
\* back and the loop yields.
exec_loop(es, m, max_cycles) ==
  Bind(exec_turns([ outcome |-> "Running", trap |-> None, cycles |-> 0,
                    trace |-> <<>>, es |-> es ], m, max_cycles), LAMBDA ls :
    IF ls.outcome = "Running"
    THEN [ls EXCEPT !.outcome = "Incomplete",
                    !.es.call_stack = Append(@, ls.es.cf)]
    ELSE ls)

\* exec(instance, stack, max_cycles): pops the current call frame and runs the
\* loop.  The result carries the stack and the store contents as left behind.
exec(m, stack, inst, max_cycles) ==
  IF Len(stack.call_stack) = 0
  THEN [ outcome |-> "Err", trap |-> None, cycles |-> 0, trace |-> <<>>,
         stack |-> stack, inst |-> inst ]
  ELSE Bind(exec_loop([ cf |-> Top(stack.call_stack), values |-> stack.values,
                        call_stack |-> Pop(stack.call_stack),
                        memories |-> inst.memories, globals |-> inst.globals ],
                      m, max_cycles), LAMBDA r :
         [ outcome |-> r.outcome, trap |-> r.trap, cycles |-> r.cycles, trace |-> r.trace,
           stack |-> [values |-> r.es.values, call_stack |-> r.es.call_stack],
           inst |-> [inst EXCEPT !.memories = r.es.memories, !.globals = r.es.globals] ])

\* ---------------------------------------------------------------- instance

\* An optional value is a sequence of length 0 or 1.
Some(x) == <<x>>

IsSome(o) == Len(o) = 1

\* GlobalInstance::new
GlobalInstanceNew(ty, value) == [value |-> value, ty |-> ty]

\* GlobalInstance::get: the stored cell with the declared type attached.
global_get(global) == attach_type(global.value, global.ty.ty)

GlobalOk(global) == [kind |-> "Ok", error |-> None, global |-> global]

GlobalErr(global) == [kind |-> "Err", error |-> "Other", global |-> global]

\* A faulty set: an immutable global is written like a mutable one.
global_set_unchecked(global, val) ==
  IF val_type(val) # global.ty.ty THEN GlobalErr(global)
  ELSE GlobalOk([global EXCEPT !.value = RawFrom(val)])

\* GlobalInstance::set: the type test, the mutability test, the store.
global_set(global, val) ==
  IF val_type(val) # global.ty.ty THEN GlobalErr(global)
  ELSE IF ~global.ty.mutable THEN GlobalErr(global)
  ELSE GlobalOk([global EXCEPT !.value = RawFrom(val)])

\* Store::init_tables: each table at its initial size, every slot empty.
init_tables(table_types) ==
  [i \in 1..Len(table_types) |-> [elements |-> [j \in 1..table_types[i] |-> <<>>]]]

\* Store::init_memories: zeroed pages.
init_memories(memory_pages) ==
  [i \in 1..Len(memory_pages) |-> [data |-> Zeros(memory_pages[i] * PageSize)]]

\* Store::init_globals: each global at its initial value.
init_globals(globals) ==
  [i \in 1..Len(globals) |->
     [value |-> globals[i].init,
      ty |-> [ty |-> globals[i].ty, mutable |-> globals[i].mutable]]]

\* TableInstance::init_raw: the items written from offset on.
init_raw(table, offset, items) ==
  [table EXCEPT !.elements =
     [j \in 1..Len(@) |->
        IF j > offset /\ j <= offset + Len(items) THEN <<items[j - offset]>> ELSE @[j]]]

\* A faulty element initialisation: an active segment that runs past the end
\* of the table writes the items that fit before the trap.
RECURSIVE init_elements_clipped(_, _, _, _)
init_elements_clipped(tables, elems, elements, i) ==
  IF i > Len(elements) THEN [tables |-> tables, elems |-> elems, trap |-> None]
  ELSE LET e == elements[i]
       IN IF e.kind = "Active"
          THEN IF e.offset < 0 \/ e.offset + Len(e.items) > Len(tables[e.table + 1].elements)
               THEN [ tables |-> [tables EXCEPT ![e.table + 1] = init_raw(@, e.offset, e.items)],
                      elems |-> elems, trap |-> "OutOfBoundsTableAccess" ]
               ELSE init_elements_clipped(
                      [tables EXCEPT ![e.table + 1] = init_raw(@, e.offset, e.items)],
                      Append(elems, [kind |-> e.kind, items |-> <<>>]), elements, i + 1)
          ELSE init_elements_clipped(tables, Append(elems, [kind |-> e.kind, items |-> <<e.items>>]),
                                     elements, i + 1)

\* Store::init_elements, from segment i on: the segments in order.  An active
\* segment is bounds-checked against its table before any of its items is
\* written; out of range, the trap is handed back and the later segments are
\* not looked at.  An active segment written to its table is dropped; a
\* passive or declared one keeps its items.
RECURSIVE init_elements(_, _, _, _)
init_elements(tables, elems, elements, i) ==
  IF i > Len(elements) THEN [tables |-> tables, elems |-> elems, trap |-> None]
  ELSE LET e == elements[i]
       IN IF e.kind = "Active"
          THEN IF e.offset < 0 \/ e.offset + Len(e.items) > Len(tables[e.table + 1].elements)
               THEN [tables |-> tables, elems |-> elems, trap |-> "OutOfBoundsTableAccess"]
               ELSE init_elements(
                      [tables EXCEPT ![e.table + 1] = init_raw(@, e.offset, e.items)],
                      Append(elems, [kind |-> e.kind, items |-> <<>>]), elements, i + 1)
          ELSE init_elements(tables, Append(elems, [kind |-> e.kind, items |-> <<e.items>>]),
                             elements, i + 1)

\* Store::init_datas, from segment i on: as for elements, over the memories.
RECURSIVE init_datas(_, _, _)
init_datas(memories, data, i) ==
  IF i > Len(data) THEN [memories |-> memories, trap |-> None]
  ELSE LET d == data[i]
       IN IF d.kind # "Active" THEN init_datas(memories, data, i + 1)
          ELSE IF d.offset < 0 \/ d.offset + Len(d.bytes) > Len(memories[d.mem + 1].data)
          THEN [memories |-> memories, trap |-> "OutOfBoundsMemoryAccess"]
          ELSE init_datas(
                 [memories EXCEPT ![d.mem + 1].data =
                    [j \in 1..Len(@) |->
                       IF j > d.offset /\ j <= d.offset + Len(d.bytes)
                       THEN d.bytes[j - d.offset] ELSE @[j]]],
                 data, i + 1)

InstOk(inst) == [kind |-> "Ok", trap |-> None, instance |-> <<inst>>]

InstErr(kind, trap) == [kind |-> kind, trap |-> trap, instance |-> <<>>]

\* ----------------------------------------------------------------- imports

\* Extern: what the host provides under a name.  A function has its signature
\* and the host's name for it; a global its type and value; a table and a
\* memory their size.
Extern(kind, ty, val) == [ty |-> ty, val |-> val, kind |-> kind]

\* Imports::new
ImportsNew == {}

\* Imports::define(module, name, extern)
define(imps, module, name, extern) ==
  imps \cup { [name |-> name, module |-> module, ext |-> extern] }

\* The Imports of the driver: reef.log(i32, i32) and reef.progress(i32).
HostImports ==
  define(define(ImportsNew,
                "reef", "log", Extern("Func", FuncType(<<"I32", "I32">>, <<>>), "log")),
         "reef", "progress", Extern("Func", FuncType(<<"I32">>, <<>>), "progress"))

\* An import a module declares.
Import(module, name, kind, ty) == [module |-> module, name |-> name, kind |-> kind, ty |-> ty]

\* Store::default, and the address arrays before anything is linked.
StoreDefault == [funcs |-> <<>>, tables |-> <<>>, memories |-> <<>>, globals |-> <<>>]

\* The provider fits the declaration: the same kind; a function the same
\* signature; a global the same type and mutability; a table or memory at
\* least the declared size.
compatible(imp, ext) ==
  /\ ext.kind = imp.kind
  /\ IF imp.kind \in {"Func", "Global"} THEN ext.ty = imp.ty ELSE ext.ty >= imp.ty

\* What the store holds for a provider.
extern_instance(ext) ==
  CASE ext.kind = "Func" -> [kind |-> "Host", id |-> ext.val, ty |-> ext.ty]
    [] ext.kind = "Global" -> GlobalInstanceNew(ext.ty, ext.val)
    [] ext.kind = "Memory" -> [data |-> Zeros(ext.ty * PageSize)]
    [] OTHER -> [elements |-> [j \in 1..ext.ty |-> <<>>]]

\* The store's list and the address array of a kind.
KindField(kind) ==
  CASE kind = "Func" -> "funcs" [] kind = "Global" -> "globals"
    [] kind = "Memory" -> "memories" [] OTHER -> "tables"

\* The entries are added at the end of the store's list; their addresses, the
\* positions they get, are added at the end of the address array.
extend(lk, kind, entries) ==
  LET f == KindField(kind)
  IN [lk EXCEPT !.store[f] = @ \o entries,
                !.addrs[f] = @ \o [i \in 1..Len(entries) |-> Len(lk.store[f]) + i - 1]]

\* A faulty extension: the addresses of the new entries are put in front.
extend_front(lk, kind, entries) ==
  LET f == KindField(kind)
  IN [lk EXCEPT !.store[f] = @ \o entries,
                !.addrs[f] = [i \in 1..Len(entries) |-> Len(lk.store[f]) + i - 1] \o @]

LinkErr(error) == [kind |-> "Err", error |-> error, store |-> StoreDefault, addrs |-> StoreDefault]

\* A faulty linker: an import nobody provides is passed over.
RECURSIVE link_lax(_, _, _, _)
link_lax(imps, m, i, lk) ==
  IF i > Len(m.imports) THEN [kind |-> "Ok", error |-> None] @@ lk
  ELSE LET imp   == m.imports[i]
           found == { e \in imps : e.module = imp.module /\ e.name = imp.name }
       IN IF found = {} THEN link_lax(imps, m, i + 1, lk)
          ELSE LET ext == (CHOOSE e \in found : TRUE).ext
               IN IF ~compatible(imp, ext) THEN LinkErr("IncompatibleImportType")
                  ELSE link_lax(imps, m, i + 1, extend(lk, ext.kind, << extern_instance(ext) >>))

\* Imports::link(store, module), from import i on: the provider defined under
\* the import's module and field name is put into the store and its address
\* into the address array of its kind.
RECURSIVE link(_, _, _, _)
link(imps, m, i, lk) ==
  IF i > Len(m.imports) THEN [kind |-> "Ok", error |-> None] @@ lk
  ELSE LET imp   == m.imports[i]
           found == { e \in imps : e.module = imp.module /\ e.name = imp.name }
       IN IF found = {} THEN LinkErr("UnknownImport")
          ELSE LET ext == (CHOOSE e \in found : TRUE).ext
               IN IF ~compatible(imp, ext) THEN LinkErr("IncompatibleImportType")
                  ELSE link(imps, m, i + 1, extend(lk, ext.kind, << extern_instance(ext) >>))

\* Store::init_funcs: one entry per function of the module.
init_funcs(funcs) ==
  [i \in 1..Len(funcs) |-> [kind |-> "Wasm", id |-> i - 1, ty |-> funcs[i].ty]]

\* A faulty allocation: the module's own entries are listed before the linked
\* ones.
allocate_front(m, lk) ==
  extend_front(extend_front(extend_front(extend_front(lk, "Func", init_funcs(m.funcs)),
                                         "Table", init_tables(m.table_types)),
                            "Memory", init_memories(m.memory_pages)),
               "Global", init_globals(m.globals))

\* The store and the address arrays once the module's own functions, tables,
\* memories and globals have been added behind the linked ones.
allocate(m, lk) ==
  extend(extend(extend(extend(lk, "Func", init_funcs(m.funcs)),
                       "Table", init_tables(m.table_types)),
                "Memory", init_memories(m.memory_pages)),
         "Global", init_globals(m.globals))

\* The Instance: the store's contents and the address arrays.
Instance(al, tables, elems, memories) ==
  [ memories |-> memories, globals |-> al.store.globals,
    tables |-> tables, elems |-> elems, funcs |-> al.store.funcs,
    func_addrs |-> al.addrs.funcs, table_addrs |-> al.addrs.tables,
    mem_addrs |-> al.addrs.memories, global_addrs |-> al.addrs.globals ]

\* A faulty instantiate: the data segments are written before the element
\* segments.
instantiate_linked_data_first(m, imps) ==
  Bind(link(imps, m, 1, [store |-> StoreDefault, addrs |-> StoreDefault]), LAMBDA lk :
    IF lk.kind # "Ok" THEN InstErr("LinkError", lk.error)
    ELSE Bind(allocate(m, lk), LAMBDA al :
      Bind(init_datas(al.store.memories, m.data, 1), LAMBDA da :
        IF da.trap # None THEN InstErr("Trap", da.trap)
        ELSE Bind(init_elements(al.store.tables, <<>>, m.elements, 1), LAMBDA el :
               IF el.trap # None THEN InstErr("Trap", el.trap)
               ELSE InstOk(Instance(al, el.tables, el.elems, da.memories))))))

\* Instance::instantiate(module, imports): a store of its own; the imports are
\* linked; the module's functions, tables, memories and globals are added; then
\* the element segments, then the data segments.  An error of the linker or a
\* trap of a segment is the error returned, and the store is dropped with it.
instantiate_linked(m, imps) ==
  Bind(link(imps, m, 1, [store |-> StoreDefault, addrs |-> StoreDefault]), LAMBDA lk :
    IF lk.kind # "Ok" THEN InstErr("LinkError", lk.error)
    ELSE Bind(allocate(m, lk), LAMBDA al :
      Bind(init_elements(al.store.tables, <<>>, m.elements, 1), LAMBDA el :
        IF el.trap # None THEN InstErr("Trap", el.trap)
        ELSE Bind(init_datas(al.store.memories, m.data, 1), LAMBDA da :
               IF da.trap # None THEN InstErr("Trap", da.trap)
               ELSE InstOk(Instance(al, el.tables, el.elems, da.memories))))))

\* A faulty instantiate: the instance is handed out although a segment
\* trapped.
instantiate_partial(m) ==
  Bind(allocate(m, link(HostImports, m, 1, [store |-> StoreDefault, addrs |-> StoreDefault])),
       LAMBDA al :
    Bind(init_elements(al.store.tables, <<>>, m.elements, 1), LAMBDA el :
      Bind(init_datas(al.store.memories, m.data, 1), LAMBDA da :
        InstOk(Instance(al, el.tables, el.elems, da.memories)))))

\* Instance::instantiate with the Imports of the driver.
instantiate(m) == instantiate_linked(m, HostImports)

\* -------------------------------------------------------------- invocation

I32(v) == [ty |-> "I32", val |-> v]

I64(v) == [ty |-> "I64", val |-> v]

\* The argument lists a caller passes, by module and exported function; the
\* last two of each set fail the argument checks of every function here.
ArgSets(m, f) ==
  LET bad == { <<I64(1)>>, <<I32(0), I32(0), I32(0)>> }
  IN CASE m.name = "add" /\ f = 0 -> { <<I32(1), I32(2)>>, <<I32(I32Max), I32(1)>> } \cup bad
       [] m.name = "count" -> { <<I32(0)>>, <<I32(1)>> } \cup bad
       [] m.name = "fib" -> { <<I32(2)>> } \cup bad
       [] m.name = "mem" -> { <<I32(-1)>>, <<I32(7)>> } \cup bad
       [] m.name = "guard" /\ f = 0 -> { <<I32(0)>>, <<I32(PageSize)>> }
       [] m.name \in {"guard", "hello", "starttrap", "elembad", "databad"} -> { <<>> }
       [] m.name = "div" /\ f = 0 ->
            { <<I32(x), I32(y)>> : x \in {I32Min, -7, 7, I32Max}, y \in {I32Min, -1, 0, 2} }
       [] m.name = "div" /\ f = 1 -> { <<I64(x), I64(y)>> : x \in {-7, 0}, y \in {-1, 0, 2} }
       [] m.name = "br" /\ f = 0 -> { <<I32(x)>> : x \in {I32Min, -1, 0, 1, I32Max} }
       [] m.name = "br" /\ f = 1 -> { <<I32(-1)>>, <<I32(4)>> }
       [] m.name = "br" /\ f = 2 -> { <<I32(0)>>, <<I32(1)>>, <<I32(2)>> }
       [] m.name = "ops" -> { <<I32(0)>>, <<I32(1)>>, <<I32(PageSize)>> }
       [] m.name = "ret" /\ f = 2 -> { <<I32(0)>>, <<I32(2)>> }
       [] m.name \in {"ret", "types"} -> { <<>> }
       [] OTHER -> { <<>> } \cup bad

\* A faulty check: only the number of arguments is compared.
call_check_count(fty, params) ==
  IF Len(fty.params) # Len(params) THEN "count" ELSE "ok"

call_check(fty, params) ==
  IF Len(fty.params) # Len(params) THEN "count"
  ELSE IF \E i \in 1..Len(params) : fty.params[i] # val_type(params[i]) THEN "type"
  ELSE "ok"

\* A faulty choice of stack: the passed stack is ignored.
call_stack_of_fresh(m, f, params, stack) ==
  StackNew(CallFrameNew(f, [i \in 1..Len(params) |-> RawFrom(params[i])],
                        m.funcs[f + 1].locals))

\* FuncHandle::call, steps 6 to 8: a fresh Stack holding the function's frame
\* when no stack is passed, the passed stack otherwise.
call_stack_of(m, f, params, stack) ==
  IF IsSome(stack)
  THEN stack[1]
  ELSE StackNew(CallFrameNew(f, [i \in 1..Len(params) |-> RawFrom(params[i])],
                             m.funcs[f + 1].locals))

\* Faulty readings of the outcome of exec: a yield reported as Done and a
\* return as Incomplete; a yield reported as Done; the results in reverse.
call_result_swapped(r, fty) ==
  CASE r.outcome = "Incomplete" ->
         IF Len(r.stack.values) < Len(fty.results)
         THEN [kind |-> "Panic", values |-> <<>>, trap |-> None]
         ELSE [kind |-> "Done",
               values |-> [i \in 1..Len(fty.results) |->
                             attach_type(last_n(r.stack.values, Len(fty.results))[i],
                                         fty.results[i])],
               trap |-> None]
    [] r.outcome = "Return" -> [kind |-> "Incomplete", values |-> <<>>, trap |-> None]
    [] r.outcome = "Trap" -> [kind |-> "Trap", values |-> <<>>, trap |-> r.trap]
    [] OTHER -> [kind |-> r.outcome, values |-> <<>>, trap |-> None]

call_result_early(r, fty) ==
  CASE r.outcome \in {"Incomplete", "Return"} ->
         [kind |-> "Done",
          values |-> [i \in 1..Len(fty.results) |-> attach_type(0, fty.results[i])],
          trap |-> None]
    [] r.outcome = "Trap" -> [kind |-> "Trap", values |-> <<>>, trap |-> r.trap]
    [] OTHER -> [kind |-> r.outcome, values |-> <<>>, trap |-> None]

call_result_reversed(r, fty) ==
  LET result_m == Len(fty.results)
  IN CASE r.outcome = "Incomplete" ->
            [kind |-> "Incomplete", values |-> <<>>, trap |-> None]
       [] r.outcome = "Return" ->
            IF Len(r.stack.values) < result_m
            THEN [kind |-> "Panic", values |-> <<>>, trap |-> None]
            ELSE [kind |-> "Done",
                  values |-> [i \in 1..result_m |->
                                attach_type(last_n(r.stack.values, result_m)[result_m + 1 - i],
                                            fty.results[i])],
                  trap |-> None]
       [] r.outcome = "Trap" -> [kind |-> "Trap", values |-> <<>>, trap |-> r.trap]
       [] OTHER -> [kind |-> r.outcome, values |-> <<>>, trap |-> None]

\* What run and call make of the outcome of exec: Incomplete when exec yields,
\* the error when exec fails, and once the function has returned the top
\* result_m cells with the declared result types attached.
call_result(r, fty) ==
  LET result_m == Len(fty.results)
  IN CASE r.outcome = "Incomplete" ->
            [kind |-> "Incomplete", values |-> <<>>, trap |-> None]
       [] r.outcome = "Return" ->
            IF Len(r.stack.values) < result_m
            THEN [kind |-> "Panic", values |-> <<>>, trap |-> None]
            ELSE [kind |-> "Done",
                  values |-> [i \in 1..result_m |->
                                attach_type(last_n(r.stack.values, result_m)[i], fty.results[i])],
                  trap |-> None]
       [] r.outcome = "Trap" -> [kind |-> "Trap", values |-> <<>>, trap |-> r.trap]
       [] OTHER -> [kind |-> r.outcome, values |-> <<>>, trap |-> None]

\* A faulty run: nothing is dispatched, whatever the budget.
run_idle(m, handle, inst, max_cycles) ==
  Bind(exec(m, handle.stack, inst, 0), LAMBDA r :
    [ res |-> call_result(r, m.funcs[handle.func + 1].ty), ran |-> TRUE,
      cycles |-> r.cycles, trace |-> r.trace, stack |-> r.stack, inst |-> r.inst ])

\* A faulty run: the handle keeps the stack it had before the run.
run_stale(m, handle, inst, max_cycles) ==
  Bind(exec(m, handle.stack, inst, max_cycles), LAMBDA r :
    [ res |-> call_result(r, m.funcs[handle.func + 1].ty), ran |-> TRUE,
      cycles |-> r.cycles, trace |-> r.trace, stack |-> handle.stack, inst |-> r.inst ])

\* ExecHandle::run(max_cycles) on a handle's stack: exec on the handle's own
\* stack, which keeps whatever exec leaves in it.
run(m, handle, inst, max_cycles) ==
  Bind(exec(m, handle.stack, inst, max_cycles), LAMBDA r :
    [ res |-> call_result(r, m.funcs[handle.func + 1].ty), ran |-> TRUE,
      cycles |-> r.cycles, trace |-> r.trace, stack |-> r.stack, inst |-> r.inst ])

\* FuncHandle::call(params, stack, max_cycles): the argument checks, the
\* choice of stack, exec, and on a yield the stack handed back in Incomplete.
call(m, f, params, stack, inst, max_cycles) ==
  IF call_check(m.funcs[f + 1].ty, params) # "ok"
  THEN [ res |-> [kind |-> "Err", values |-> <<>>, trap |-> None], ran |-> FALSE,
         cycles |-> 0, trace |-> <<>>, stack |-> <<>>, inst |-> inst ]
  ELSE Bind(exec(m, call_stack_of(m, f, params, stack), inst, max_cycles), LAMBDA r :
         [ res |-> call_result(r, m.funcs[f + 1].ty), ran |-> TRUE,
           cycles |-> r.cycles, trace |-> r.trace, stack |-> r.stack, inst |-> r.inst ])

\* Instance::export_addr(name): the address the export of that name resolves
\* to in the address array of its kind.  Of the names only _start is kept.
export_addr(m, inst, name) ==
  IF name # "_start" \/ m.export_start = <<>> THEN <<>>
  ELSE LET e     == m.export_start[1]
           addrs == CASE e.kind = "Func" -> inst.func_addrs
                      [] e.kind = "Table" -> inst.table_addrs
                      [] e.kind = "Memory" -> inst.mem_addrs
                      [] OTHER -> inst.global_addrs
       IN IF e.index + 1 > Len(addrs) THEN <<>>
          ELSE << [kind |-> e.kind, addr |-> addrs[e.index + 1]] >>

\* A faulty start_func: the export is looked at before the declared start
\* function.
start_func_export_first(m, inst) ==
  LET ex == export_addr(m, inst, "_start")
  IN IF m.start_func = <<>> /\ (ex = <<>> \/ ex[1].kind # "Func") THEN <<>>
     ELSE LET func_index == IF ex # <<>> /\ ex[1].kind = "Func" THEN ex[1].addr
                            ELSE m.start_func[1]
              func_addr  == inst.func_addrs[func_index + 1]
          IN << [addr |-> func_addr, ty |-> inst.funcs[func_addr + 1].ty] >>

\* Instance::start_func: the declared start function, or else the address
\* export_addr gives for _start if that is a function; the index or address
\* is then looked up in func_addrs, and the handle is made of the result.
start_func(m, inst) ==
  LET ex == export_addr(m, inst, "_start")
  IN IF m.start_func = <<>> /\ (ex = <<>> \/ ex[1].kind # "Func") THEN <<>>
     ELSE LET func_index == IF m.start_func # <<>> THEN m.start_func[1] ELSE ex[1].addr
              func_addr  == inst.func_addrs[func_index + 1]
          IN << [addr |-> func_addr, ty |-> inst.funcs[func_addr + 1].ty] >>

\* Instance::start(max_cycles): the start function called on a stack of its
\* own, without arguments; an error of the call is returned, any other result
\* of it is dropped.
start(m, inst, max_cycles) ==
  IF start_func(m, inst) = <<>>
  THEN [kind |-> "Ok", trap |-> None, called |-> "None", inst |-> inst]
  ELSE Bind(call(m, inst.funcs[start_func(m, inst)[1].addr + 1].id, <<>>, <<>>, inst,
                 max_cycles), LAMBDA c :
         IF c.res.kind \in {"Done", "Incomplete"}
         THEN [kind |-> "Ok", trap |-> None, called |-> c.res.kind, inst |-> c.inst]
         ELSE [kind |-> c.res.kind, trap |-> c.res.trap, called |-> c.res.kind, inst |-> c.inst])

\* Instance::instantiate_start(module, imports, max_cycles): instantiate, then
\* start; the error of either is returned and the instance dropped.
instantiate_start(m, max_cycles) ==
  Bind(instantiate(m), LAMBDA r :
    IF r.kind # "Ok" THEN r @@ [called |-> "None"]
    ELSE Bind(start(m, r.instance[1], max_cycles), LAMBDA s0 :
           IF s0.kind # "Ok"
           THEN InstErr(s0.kind, s0.trap) @@ [called |-> s0.called]
           ELSE InstOk(s0.inst) @@ [called |-> s0.called]))

\* ---------------------------------------------------------------- snapshot
\* The archive is a byte string.  Integers are little-endian; a raw cell is a
\* 64-bit two's complement word; a Vec is its length, then its elements.

EncU32(n) == << n % 256, (n \div 256) % 256, (n \div 65536) % 256, (n \div 16777216) % 256 >>

DecU32(bytes, pos) ==
  bytes[pos] + 256 * bytes[pos + 1] + 65536 * bytes[pos + 2] + 16777216 * bytes[pos + 3]

EncCell(v) ==
  IF v >= 0
  THEN EncU32(v) \o << 0, 0, 0, 0 >>
  ELSE LET w == v - I32Min
       IN << w % 256, (w \div 256) % 256, (w \div 65536) % 256, (w \div 16777216) + 128,
             255, 255, 255, 255 >>

DecCell(bytes, pos) ==
  IF bytes[pos + 7] = 255
  THEN (bytes[pos] + 256 * bytes[pos + 1] + 65536 * bytes[pos + 2]
          + 16777216 * (bytes[pos + 3] - 128)) + I32Min
  ELSE DecU32(bytes, pos)

RECURSIVE Concat(_, _)
Concat(parts, n) == IF n = 0 THEN <<>> ELSE Concat(parts, n - 1) \o parts[n]

EncCells(cells) ==
  EncU32(Len(cells)) \o Concat([i \in 1..Len(cells) |-> EncCell(cells[i])], Len(cells))

DecCells(bytes, pos) ==
  LET n == DecU32(bytes, pos)
  IN [ v |-> [i \in 1..n |-> DecCell(bytes, pos + 4 + 8 * (i - 1))], pos |-> pos + 4 + 8 * n ]

EncBytes(data) == EncU32(Len(data)) \o data

DecBytes(bytes, pos) ==
  LET n == DecU32(bytes, pos)
  IN [ v |-> SubSeq(bytes, pos + 4, pos + 3 + n), pos |-> pos + 4 + n ]

EncBlockFrame(bf) ==
  EncU32(bf.instr_ptr) \o EncU32(bf.end_instr_ptr) \o EncU32(bf.stack_ptr)
    \o << IF bf.args = "Empty" THEN 0 ELSE 1, IF bf.block = "Loop" THEN 0 ELSE 1 >>

DecBlockFrame(bytes, pos) ==
  [ instr_ptr |-> DecU32(bytes, pos), end_instr_ptr |-> DecU32(bytes, pos + 4),
    stack_ptr |-> DecU32(bytes, pos + 8),
    args |-> IF bytes[pos + 12] = 0 THEN "Empty" ELSE "Type",
    block |-> IF bytes[pos + 13] = 0 THEN "Loop" ELSE "Block" ]

EncBlockFrames(bfs) ==
  EncU32(Len(bfs)) \o Concat([i \in 1..Len(bfs) |-> EncBlockFrame(bfs[i])], Len(bfs))

DecBlockFrames(bytes, pos) ==
  LET n == DecU32(bytes, pos)
  IN [ v |-> [i \in 1..n |-> DecBlockFrame(bytes, pos + 4 + 14 * (i - 1))],
       pos |-> pos + 4 + 14 * n ]

EncCallFrame(cf) ==
  EncU32(cf.func_ptr) \o EncU32(cf.instr_ptr) \o EncCells(cf.locals)
    \o EncBlockFrames(cf.block_frames)

DecCallFrame(bytes, pos) ==
  Bind(DecCells(bytes, pos + 8), LAMBDA ls :
    Bind(DecBlockFrames(bytes, ls.pos), LAMBDA bs :
      [ v |-> [ func_ptr |-> DecU32(bytes, pos), instr_ptr |-> DecU32(bytes, pos + 4),
                locals |-> ls.v, block_frames |-> bs.v ],
        pos |-> bs.pos ]))

\* n call frames from pos on, appended to acc.
RECURSIVE DecCallFrames(_, _, _, _)
DecCallFrames(bytes, pos, n, acc) ==
  IF n = 0 THEN [v |-> acc, pos |-> pos]
  ELSE Bind(DecCallFrame(bytes, pos), LAMBDA r :
         DecCallFrames(bytes, r.pos, n - 1, Append(acc, r.v)))

EncStack(stack) ==
  EncCells(stack.values) \o EncU32(Len(stack.call_stack))
    \o Concat([i \in 1..Len(stack.call_stack) |-> EncCallFrame(stack.call_stack[i])],
              Len(stack.call_stack))

DecStack(bytes, pos) ==
  Bind(DecCells(bytes, pos), LAMBDA vs :
    Bind(DecCallFrames(bytes, vs.pos + 4, DecU32(bytes, vs.pos), <<>>), LAMBDA cs :
      [ v |-> [values |-> vs.v, call_stack |-> cs.v], pos |-> cs.pos ]))

\* A faulty archive: the globals are left out.
to_bytes_no_globals(data) == EncStack(data.stack) \o EncBytes(data.memory) \o EncCells(<<>>)

\* rkyv::to_bytes of a SerializationState { stack, memory, globals }
to_bytes(data) == EncStack(data.stack) \o EncBytes(data.memory) \o EncCells(data.globals)

\* The SerializationState archived in a blob.
from_bytes(bytes) ==
  Bind(DecStack(bytes, 1), LAMBDA st :
    Bind(DecBytes(bytes, st.pos), LAMBDA mem :
      [ stack |-> st.v, memory |-> mem.v, globals |-> DecCells(bytes, mem.pos).v ]))

\* Faulty captures: the globals in reverse order; the memory as zero bytes.
SerializationState_reversed(stack, inst) ==
  [ stack   |-> stack,
    memory  |-> inst.memories[1].data,
    globals |-> [i \in 1..Len(inst.globals) |->
                   inst.globals[Len(inst.globals) + 1 - i].value] ]

SerializationState_zeroed(stack, inst) ==
  [ stack   |-> stack,
    memory  |-> Zeros(Len(inst.memories[1].data)),
    globals |-> [i \in 1..Len(inst.globals) |-> inst.globals[i].value] ]

\* ExecHandle::serialize: the state it archives is the handle's stack, the
\* data of memory 0 and the value of every global.  Indexing memory 0 of an
\* instance without memory panics.
SerializationState(stack, inst) ==
  [ stack   |-> stack,
    memory  |-> inst.memories[1].data,
    globals |-> [i \in 1..Len(inst.globals) |-> inst.globals[i].value] ]

serialize(stack, inst) ==
  IF Len(inst.memories) = 0
  THEN [kind |-> "Panic", bytes |-> <<>>]
  ELSE [kind |-> "Ok", bytes |-> to_bytes(SerializationState(stack, inst))]

\* Instance::instantiate_with_state(module, imports, state): instantiation
\* without the start function, then memory 0 and the globals are overlaid with
\* the archived contents; the archived stack is returned beside the instance.
instantiate_with_state(m, bytes) ==
  Bind(from_bytes(bytes), LAMBDA state :
    Bind(instantiate(m), LAMBDA r :
      IF r.kind # "Ok"
      THEN [kind |-> r.kind, trap |-> r.trap, instance |-> <<>>, stack |-> <<>>]
      ELSE [ kind |-> "Ok", trap |-> None,
             instance |-> Some([r.instance[1] EXCEPT
                        !.memories = [i \in 1..Len(@) |->
                                        IF i = 1 THEN [@[i] EXCEPT !.data = state.memory] ELSE @[i]],
                        !.globals = [i \in 1..Len(@) |->
                                       [@[i] EXCEPT !.value = state.globals[i]]]]),
             stack |-> Some(state.stack) ]))

\* ------------------------------------------------------------------ loader
\* The loader works on the payloads wasmparser cuts the binary into.  A payload
\* is its kind, the number n of items it carries (for Start the function
\* index, for DataCount the count), the verdict of the validator on it, and for
\* Version the encoding.

\* The sections that populate the Module.
SectionKinds ==
  { "TypeSection", "ImportSection", "FunctionSection", "TableSection", "MemorySection",
    "GlobalSection", "ExportSection", "StartSection", "ElementSection", "CodeSectionStart",
    "DataSection", "DataCountSection" }

\* Payloads the loader has no arm for: they reach the catch-all arm.
OtherKinds == { "TagSection", "ComponentSection" }

Payload(kind, n, valid, encoding) ==
  [kind |-> kind, n |-> n, valid |-> valid, encoding |-> encoding]

Payloads ==
  { Payload("Version", 1, v, e) : v \in BOOLEAN, e \in {"Module", "Component"} }
    \cup { Payload(k, n, TRUE, "Module") : k \in SectionKinds, n \in 0..1 }
    \cup { Payload(k, 1, FALSE, "Module") : k \in SectionKinds }
    \cup { Payload("CodeSectionEntry", 1, v, "Module") : v \in BOOLEAN }
    \cup { Payload("End", 0, v, "Module") : v \in BOOLEAN }
    \cup { Payload(k, 0, TRUE, "Module") :
             k \in {"CustomSection", "UnknownSection"} \cup OtherKinds }

\* The n items a section reader yields, converted.
Items(n) == [i \in 1..n |-> "item"]

\* ModuleReader::new
ModuleReaderNew ==
  [ version |-> <<>>, start_func |-> <<>>, func_types |-> <<>>, code_type_addrs |-> <<>>,
    exports |-> <<>>, code |-> <<>>, globals |-> <<>>, table_types |-> <<>>,
    memory_types |-> <<>>, imports |-> <<>>, data |-> <<>>, elements |-> <<>>,
    end_reached |-> FALSE ]

PayloadOk(reader) == [res |-> "Ok", reader |-> reader]

PayloadErr(error, reader) == [res |-> error, reader |-> reader]

\* A section whose duplicate test is that its field is not empty: the test,
\* then the validator, then the field is set.
Section(reader, payload, filled, name, reader2) ==
  IF filled THEN PayloadErr("DuplicateSection", reader)
  ELSE IF ~payload.valid THEN PayloadErr("ParseError", reader)
  ELSE PayloadOk(reader2)

\* process_payload, the arms of the sections that populate the Module.
process_section(reader, payload) ==
  LET items == Items(payload.n)
  IN CASE payload.kind = "StartSection" ->
            Section(reader, payload, reader.start_func # <<>>, "Start section",
                    [reader EXCEPT !.start_func = <<payload.n>>])
       [] payload.kind = "TypeSection" ->
            Section(reader, payload, reader.func_types # <<>>, "Type section",
                    [reader EXCEPT !.func_types = items])
       [] payload.kind = "GlobalSection" ->
            Section(reader, payload, reader.globals # <<>>, "Global section",
                    [reader EXCEPT !.globals = items])
       [] payload.kind = "TableSection" ->
            Section(reader, payload, reader.table_types # <<>>, "Table section",
                    [reader EXCEPT !.table_types = items])
       [] payload.kind = "MemorySection" ->
            Section(reader, payload, reader.memory_types # <<>>, "Memory section",
                    [reader EXCEPT !.memory_types = items])
       [] payload.kind = "ElementSection" ->
            Section(reader, payload, FALSE, "Element section",
                    [reader EXCEPT !.elements = items])
       [] payload.kind = "DataSection" ->
            Section(reader, payload, reader.data # <<>>, "Data section",
                    [reader EXCEPT !.data = items])
       [] payload.kind = "DataCountSection" ->
            Section(reader, payload, reader.data # <<>>, "Data count section", reader)
       [] payload.kind = "FunctionSection" ->
            Section(reader, payload, reader.code_type_addrs # <<>>, "Function section",
                    [reader EXCEPT !.code_type_addrs = items])
       [] payload.kind = "CodeSectionStart" ->
            Section(reader, payload, reader.code # <<>>, "Code section", reader)
       [] payload.kind = "CodeSectionEntry" ->
            Section(reader, payload, FALSE, "Code entry",
                    [reader EXCEPT !.code = Append(@, "item")])
       [] payload.kind = "ImportSection" ->
            Section(reader, payload, reader.imports # <<>>, "Import section",
                    [reader EXCEPT !.imports = items])
       [] payload.kind = "ExportSection" ->
            Section(reader, payload, reader.exports # <<>>, "Export section",
                    [reader EXCEPT !.exports = items])
       [] OTHER -> PayloadErr("UnsupportedSection", reader)

\* A faulty loader: an unknown section is skipped like a custom one.
process_payload_lenient(reader, payload) ==
  CASE payload.kind = "Version" ->
         IF ~payload.valid THEN PayloadErr("ParseError", reader)
         ELSE IF payload.encoding = "Component"
         THEN PayloadErr("InvalidEncoding", [reader EXCEPT !.version = <<payload.n>>])
         ELSE PayloadOk([reader EXCEPT !.version = <<payload.n>>])
    [] payload.kind = "End" ->
         IF reader.end_reached THEN PayloadErr("DuplicateSection", reader)
         ELSE IF ~payload.valid THEN PayloadErr("ParseError", reader)
         ELSE PayloadOk([reader EXCEPT !.end_reached = TRUE])
    [] payload.kind \in {"CustomSection", "UnknownSection"} -> PayloadOk(reader)
    [] OTHER -> process_section(reader, payload)

\* A faulty loader: a custom section leaves an entry among the exports.
process_payload_custom(reader, payload) ==
  CASE payload.kind = "Version" ->
         IF ~payload.valid THEN PayloadErr("ParseError", reader)
         ELSE IF payload.encoding = "Component"
         THEN PayloadErr("InvalidEncoding", [reader EXCEPT !.version = <<payload.n>>])
         ELSE PayloadOk([reader EXCEPT !.version = <<payload.n>>])
    [] payload.kind = "End" ->
         IF reader.end_reached THEN PayloadErr("DuplicateSection", reader)
         ELSE IF ~payload.valid THEN PayloadErr("ParseError", reader)
         ELSE PayloadOk([reader EXCEPT !.end_reached = TRUE])
    [] payload.kind = "CustomSection" ->
         PayloadOk([reader EXCEPT !.exports = Append(@, "item")])
    [] payload.kind = "UnknownSection" -> PayloadErr("UnsupportedSection", reader)
    [] OTHER -> process_section(reader, payload)

\* ModuleReader::process_payload(payload, validator)
process_payload(reader, payload) ==
  CASE payload.kind = "Version" ->
         IF ~payload.valid THEN PayloadErr("ParseError", reader)
         ELSE IF payload.encoding = "Component"
         THEN PayloadErr("InvalidEncoding", [reader EXCEPT !.version = <<payload.n>>])
         ELSE PayloadOk([reader EXCEPT !.version = <<payload.n>>])
    [] payload.kind = "End" ->
         IF reader.end_reached THEN PayloadErr("DuplicateSection", reader)
         ELSE IF ~payload.valid THEN PayloadErr("ParseError", reader)
         ELSE PayloadOk([reader EXCEPT !.end_reached = TRUE])
    [] payload.kind = "CustomSection" -> PayloadOk(reader)
    [] payload.kind = "UnknownSection" -> PayloadErr("UnsupportedSection", reader)
    [] OTHER -> process_section(reader, payload)

ParseOk(m) == [kind |-> "Ok", error |-> None, module |-> <<m>>]

ParseErr(error) == [kind |-> "Err", error |-> error, module |-> <<>>]

NoParse == [kind |-> "None", error |-> None, module |-> <<>>]

\* The TinyWasmModule built of what the reader has collected.
TinyWasmModule(reader) ==
  [ funcs |-> reader.code, func_types |-> reader.func_types, globals |-> reader.globals,
    table_types |-> reader.table_types, imports |-> reader.imports,
    start_func |-> reader.start_func, data |-> reader.data, exports |-> reader.exports,
    elements |-> reader.elements, memory_types |-> reader.memory_types ]

\* A faulty conversion: the end of the module is not asked for.
try_from_unended(reader) ==
  IF Len(reader.code_type_addrs) # Len(reader.code) THEN ParseErr("Other")
  ELSE ParseOk(TinyWasmModule(reader))

\* TryFrom<ModuleReader> for TinyWasmModule
try_from(reader) ==
  IF ~reader.end_reached THEN ParseErr("EndNotReached")
  ELSE IF Len(reader.code_type_addrs) # Len(reader.code) THEN ParseErr("Other")
  ELSE ParseOk(TinyWasmModule(reader))

\* Parser::parse_module_bytes, after the loop over the payloads.
parse_module_bytes_end(reader) ==
  IF ~reader.end_reached THEN ParseErr("EndNotReached") ELSE try_from(reader)

\* ------------------------------------------------------------------- state

VARIABLES
  module,            \* the parsed Module (an index into Library)
  instance,          \* the Instance's store contents, once instantiated
  exec_handle,       \* the live ExecHandle: its function and its Stack
  old_stack,         \* a Stack the caller holds: CallResult::Incomplete(stack),
                     \* or the stack instantiate_with_state returned
  serialized_state,  \* the snapshot blob the caller holds
  run_res,           \* the result of the last call / run / serialize
  hist,              \* the current invocation: function, arguments, the
                     \* store contents it started from, cycles and trace so far
  boot,              \* how the instance came to be: "none", "plain" (instantiate),
                     \* "started" / "suspended" (instantiate_start, the start
                     \* function run to its end / cut short), "failed", "foreign"
  reader,            \* the loader's ModuleReader
  parsing,           \* the loader's run: which parser, the payloads fed so far
  parse_res,         \* the loader's result
  imports            \* the Imports the host has defined

mvars ==
  <<module, instance, exec_handle, old_stack, serialized_state, run_res, hist, boot, imports>>

pvars == <<reader, parsing, parse_res>>

vars == <<module, instance, exec_handle, old_stack, serialized_state, run_res, hist, boot,
          reader, parsing, parse_res, imports>>

Mod == Library[module]

Budgets == (0..MaxChunk) \cup {MAX_CYCLES}

\* The number of fresh invocations made on one instance is bounded.
MaxCalls == 2

\* The number of payloads fed to the loader is bounded.
MaxPayloads == 3

NoRes ==
  [op |-> "none", kind |-> "None", values |-> <<>>, trap |-> None, cycles |-> 0, max_cycles |-> 0]

NoHist == [ active |-> FALSE, func |-> 0, params |-> <<>>, inv0 |-> <<>>,
            cycles |-> 0, trace |-> <<>>, calls |-> 0,
            restored |-> FALSE, blob |-> <<>>, over |-> FALSE,
            trapped |-> FALSE, after_trap |-> FALSE ]

NoParsing ==
  [mode |-> "idle", fed |-> 0, seen |-> {}, last |-> <<>>, ends |-> 0, finished |-> FALSE]

ResOf(op, cr, cycles, max_cycles) ==
  [op |-> op, kind |-> cr.kind, values |-> cr.values, trap |-> cr.trap,
   cycles |-> cycles, max_cycles |-> max_cycles]

Crashed == run_res.kind = "Panic"

Init ==
  /\ module \in ModuleIds
  /\ instance = <<>>
  /\ exec_handle = <<>>
  /\ old_stack = <<>>
  /\ serialized_state = <<>>
  /\ run_res = NoRes
  /\ hist = NoHist
  /\ boot = "none"
  /\ imports = HostImports
  /\ reader = ModuleReaderNew
  /\ parsing = NoParsing
  /\ parse_res = NoParse

\* Instance::instantiate(module, imports): the instance, or the error and no
\* instance.
Instantiate ==
  /\ ~Crashed
  /\ instance = <<>> /\ boot = "none"
  /\ \E r \in {instantiate(Mod)} :
       /\ instance' = r.instance
       /\ boot' = IF r.kind = "Ok" THEN "plain" ELSE "failed"
       /\ run_res' = IF r.kind = "Ok" THEN run_res
                     ELSE [NoRes EXCEPT !.op = "instantiate", !.kind = r.kind, !.trap = r.trap]
  /\ UNCHANGED <<module, exec_handle, old_stack, serialized_state, hist>>
  /\ UNCHANGED <<pvars, imports>>

\* Instance::instantiate_start(module, imports, max_cycles)
InstantiateStart(max_cycles) ==
  /\ ~Crashed
  /\ instance = <<>> /\ boot = "none"
  /\ \E r \in {instantiate_start(Mod, max_cycles)} :
       /\ instance' = r.instance
       /\ boot' = IF r.kind # "Ok" THEN "failed"
                  ELSE IF r.called = "Done" THEN "started"
                  ELSE IF r.called = "Incomplete" THEN "suspended"
                  ELSE "plain"
       /\ run_res' = IF r.kind = "Ok" THEN run_res
                     ELSE [NoRes EXCEPT !.op = "instantiate_start", !.kind = r.kind,
                                        !.trap = r.trap]
  /\ UNCHANGED <<module, exec_handle, old_stack, serialized_state, hist>>
  /\ UNCHANGED <<pvars, imports>>

\* The history of an invocation after one more exec with result res.  The
\* invocation ends with the first result other than Incomplete; a later exec
\* on its stack, or a refused call, is noted as such and not counted.
HistAfter(h, r, res) ==
  IF h.active
  THEN [h EXCEPT !.cycles = @ + r.cycles,
                 !.trace = @ \o r.trace,
                 !.active = res.kind = "Incomplete",
                 !.blob = <<>>,
                 !.trapped = @ \/ res.kind = "Trap"]
  ELSE [h EXCEPT !.over = TRUE]

HistFresh(f, params) ==
  [ active |-> TRUE, func |-> f, params |-> params, inv0 |-> instance,
    cycles |-> 0, trace |-> <<>>, calls |-> hist.calls + 1,
    restored |-> FALSE, blob |-> <<>>, over |-> FALSE,
    trapped |-> hist.trapped, after_trap |-> hist.trapped ]

\* FuncHandle::call(params, stack, max_cycles) on an exported function: either
\* a fresh invocation, or the resumption of the invocation whose stack the
\* caller holds.
Call(f, params, resume, max_cycles) ==
  /\ ~Crashed
  /\ IsSome(instance)
  /\ exec_handle = <<>>
  /\ IF resume
     THEN IsSome(old_stack) /\ hist.active /\ f = hist.func /\ params = hist.params
          /\ hist.cycles < MaxTotal
     ELSE ~hist.active /\ hist.calls < MaxCalls
  /\ \E c \in {call(Mod, f, params, IF resume THEN old_stack ELSE <<>>, instance[1], max_cycles)} :
       /\ run_res' = ResOf("call", c.res, c.cycles, max_cycles)
       /\ IF c.ran
          THEN /\ instance' = Some(c.inst)
               /\ old_stack' = IF c.res.kind = "Incomplete" THEN Some(c.stack) ELSE <<>>
               /\ hist' = HistAfter(IF resume THEN hist ELSE HistFresh(f, params), c, c.res)
          ELSE hist' = [hist EXCEPT !.over = TRUE] /\ UNCHANGED <<instance, old_stack>>
  /\ serialized_state' = <<>>
  /\ UNCHANGED <<module, exec_handle, boot>>
  /\ UNCHANGED <<pvars, imports>>

\* FuncHandleTyped::call(args, prior_stack): the same checks and the same
\* choice of stack, returning an ExecHandle that has not run yet.  A host
\* starting a new invocation keeps no snapshot of an earlier one.
TypedCall(f, params, resume) ==
  LET fty == Mod.funcs[f + 1].ty
      chk == call_check(fty, params)
      st  == call_stack_of(Mod, f, params, IF resume THEN old_stack ELSE <<>>)
  IN /\ ~Crashed
     /\ IsSome(instance)
     /\ exec_handle = <<>>
     /\ IF resume
        THEN IsSome(old_stack) /\ hist.active /\ f = hist.func /\ params = hist.params
        ELSE ~hist.active /\ hist.calls < MaxCalls
     /\ IF chk # "ok"
        THEN /\ run_res' = [NoRes EXCEPT !.op = "call", !.kind = "Err"]
             /\ hist' = [hist EXCEPT !.over = TRUE]
             /\ UNCHANGED <<exec_handle, old_stack, serialized_state>>
        ELSE /\ run_res' = IF resume THEN run_res ELSE NoRes
             /\ exec_handle' = Some([func |-> f, stack |-> st])
             /\ old_stack' = <<>>
             /\ hist' = IF resume THEN hist ELSE HistFresh(f, params)
             /\ serialized_state' = IF resume THEN serialized_state ELSE <<>>
     /\ UNCHANGED <<module, instance, boot>>
     /\ UNCHANGED <<pvars, imports>>

\* ExecHandle::run(max_cycles)
Run(max_cycles) ==
  /\ ~Crashed
  /\ IsSome(exec_handle)
  /\ hist.cycles < MaxTotal
  /\ \E c \in {run(Mod, exec_handle[1], instance[1], max_cycles)} :
       /\ run_res' = ResOf("run", c.res, c.cycles, max_cycles)
       /\ exec_handle' = Some([exec_handle[1] EXCEPT !.stack = c.stack])
       /\ instance' = Some(c.inst)
       /\ hist' = HistAfter(hist, c, c.res)
  /\ serialized_state' = <<>>
  /\ UNCHANGED <<module, old_stack, boot>>
  /\ UNCHANGED <<pvars, imports>>

\* The caller drops an ExecHandle whose invocation has ended.
DropHandle ==
  /\ ~Crashed
  /\ IsSome(exec_handle)
  /\ ~hist.active
  /\ exec_handle' = <<>>
  /\ UNCHANGED <<module, instance, old_stack, serialized_state, run_res, hist, boot>>
  /\ UNCHANGED <<pvars, imports>>

\* ExecHandle::serialize(): the handle's stack and the memory data are moved
\* into the SerializationState, archived, and moved back.
Serialize ==
  /\ ~Crashed
  /\ IsSome(exec_handle)
  /\ \E s \in {serialize(exec_handle[1].stack, instance[1])} :
       IF s.kind = "Ok"
       THEN serialized_state' = Some(s.bytes) /\ UNCHANGED run_res
       ELSE run_res' = [NoRes EXCEPT !.op = "serialize", !.kind = s.kind]
            /\ UNCHANGED serialized_state
  /\ UNCHANGED <<module, instance, exec_handle, old_stack, hist, boot>>
  /\ UNCHANGED <<pvars, imports>>

\* A faulty round: the start function is called on the restored instance.
RestoreStarting ==
  /\ ~Crashed
  /\ IsSome(serialized_state)
  /\ \E r \in {instantiate_with_state(Mod, serialized_state[1])} :
       /\ instance' = Some(start(Mod, r.instance[1], MAX_CYCLES).inst)
       /\ old_stack' = r.stack
  /\ exec_handle' = <<>>
  /\ serialized_state' = <<>>
  /\ hist' = [hist EXCEPT !.restored = @ \/ hist.active, !.blob = serialized_state]
  /\ UNCHANGED <<module, run_res, boot>>
  /\ UNCHANGED <<pvars, imports>>

\* The driver's next round: the handle and the instance are dropped, and
\* instantiate_with_state builds a fresh instance from the blob and hands back
\* the archived stack.
Restore ==
  /\ ~Crashed
  /\ IsSome(serialized_state)
  /\ \E r \in {instantiate_with_state(Mod, serialized_state[1])} :
       /\ instance' = r.instance
       /\ old_stack' = r.stack
  /\ exec_handle' = <<>>
  /\ serialized_state' = <<>>
  /\ hist' = [hist EXCEPT !.restored = @ \/ hist.active, !.blob = serialized_state]
  /\ UNCHANGED <<module, run_res, boot>>
  /\ UNCHANGED <<pvars, imports>>

\* What instantiate_with_state can compare of two modules, were it archived.
ModuleMeta(m) ==
  [ funcs |-> Len(m.funcs), types |-> func_types(m),
    memories |-> Len(m.memory_pages), globals |-> Len(m.globals) ]

\* A round in which the blob is handed to instantiate_with_state together
\* with another module, one with as many memories and globals, so that the
\* overlay has a place for everything archived.
RestoreOther(m2) ==
  /\ ~Crashed
  /\ IsSome(serialized_state)
  /\ m2 # module
  /\ Len(Library[m2].memory_pages) = Len(Mod.memory_pages)
  /\ Len(Library[m2].globals) = Len(Mod.globals)
  /\ \E r \in {instantiate_with_state(Library[m2], serialized_state[1])} :
       /\ instance' = r.instance
       /\ old_stack' = r.stack
       /\ run_res' = [NoRes EXCEPT !.op = "restore", !.kind = r.kind, !.trap = r.trap]
  /\ module' = m2
  /\ boot' = "foreign"
  /\ exec_handle' = <<>>
  /\ serialized_state' = <<>>
  /\ hist' = [hist EXCEPT !.active = FALSE, !.over = TRUE, !.blob = <<>>]
  /\ UNCHANGED <<pvars, imports>>

Next ==
  \/ Instantiate
  \/ \E f \in Mod.exports, resume \in BOOLEAN, max_cycles \in Budgets :
       \E params \in ArgSets(Mod, f) : Call(f, params, resume, max_cycles)
  \/ \E f \in Mod.exports, resume \in BOOLEAN :
       \E params \in ArgSets(Mod, f) : TypedCall(f, params, resume)
  \/ \E max_cycles \in Budgets : Run(max_cycles)
  \/ DropHandle
  \/ Serialize
  \/ Restore

Spec == Init /\ [][Next]_vars

\* The host that only calls and runs, and keeps doing so with a positive
\* budget as long as it can.
NextRun ==
  \/ Instantiate
  \/ \E f \in Mod.exports, resume \in BOOLEAN, max_cycles \in Budgets :
       \E params \in ArgSets(Mod, f) : Call(f, params, resume, max_cycles)
  \/ \E f \in Mod.exports, resume \in BOOLEAN :
       \E params \in ArgSets(Mod, f) : TypedCall(f, params, resume)
  \/ \E max_cycles \in Budgets : Run(max_cycles)
  \/ DropHandle

RunAgain == \E max_cycles \in Budgets \ {0} : Run(max_cycles)

CallAgain == \E max_cycles \in Budgets \ {0} : Call(hist.func, hist.params, TRUE, max_cycles)

LiveSpec == Init /\ [][NextRun]_vars /\ WF_vars(RunAgain) /\ WF_vars(CallAgain)

\* The host of a module with a start function, segments or guarded accesses:
\* it instantiates with or without the start function, and may hand a blob to
\* another module.
InstInit ==
  /\ module \in StartModuleIds
  /\ instance = <<>>
  /\ exec_handle = <<>>
  /\ old_stack = <<>>
  /\ serialized_state = <<>>
  /\ run_res = NoRes
  /\ hist = NoHist
  /\ boot = "none"
  /\ imports = HostImports
  /\ reader = ModuleReaderNew
  /\ parsing = NoParsing
  /\ parse_res = NoParse

InstNext ==
  \/ Instantiate
  \/ \E max_cycles \in Budgets : InstantiateStart(max_cycles)
  \/ \E f \in Mod.exports, resume \in BOOLEAN, max_cycles \in Budgets :
       \E params \in ArgSets(Mod, f) : Call(f, params, resume, max_cycles)
  \/ \E f \in Mod.exports, resume \in BOOLEAN :
       \E params \in ArgSets(Mod, f) : TypedCall(f, params, resume)
  \/ \E max_cycles \in Budgets : Run(max_cycles)
  \/ DropHandle
  \/ Serialize
  \/ Restore

InstSpec == InstInit /\ [][InstNext]_vars

\* The host that hands the blob of one module to instantiate_with_state
\* together with another module.
MetaNext ==
  \/ Instantiate
  \/ \E f \in Mod.exports, resume \in BOOLEAN :
       \E params \in ArgSets(Mod, f) : TypedCall(f, params, resume)
  \/ \E max_cycles \in Budgets : Run(max_cycles)
  \/ DropHandle
  \/ Serialize
  \/ \E m2 \in StartModuleIds : RestoreOther(m2)

MetaSpec == InstInit /\ [][MetaNext]_vars

\* ------------------------------------------------------- a global, on its own

\* The cells a global is made with and set to.
GlobalCells == { I32Min, -1, 0, 10, I32Max }

GlobalValues == { attach_type(v, ty) : v \in GlobalCells, ty \in {"I32", "I64", "F32"} }

\* An instance holding one global and nothing else.
GlobalInit ==
  /\ module = 0
  /\ instance \in
       { Some([ memories |-> <<>>, tables |-> <<>>, elems |-> <<>>,
                globals |-> << GlobalInstanceNew([ty |-> ty, mutable |-> mutable], v) >> ]) :
           ty \in {"I32", "I64"}, mutable \in BOOLEAN, v \in GlobalCells }
  /\ exec_handle = <<>>
  /\ old_stack = <<>>
  /\ serialized_state = <<>>
  /\ run_res = NoRes
  /\ hist = NoHist
  /\ boot = "none"
  /\ imports = ImportsNew
  /\ reader = ModuleReaderNew
  /\ parsing = NoParsing
  /\ parse_res = NoParse

\* GlobalInstance::set(val); the argument and the global before the first set
\* are kept in hist.
GlobalSet(val) ==
  /\ hist.calls < MaxCalls
  /\ \E r \in {global_set(instance[1].globals[1], val)} :
       /\ instance' = Some([instance[1] EXCEPT !.globals[1] = r.global])
       /\ run_res' = [NoRes EXCEPT !.op = "global_set", !.kind = r.kind]
  /\ hist' = [hist EXCEPT !.params = <<val>>, !.calls = @ + 1,
                          !.inv0 = IF hist.calls = 0 THEN instance ELSE @]
  /\ UNCHANGED <<module, exec_handle, old_stack, serialized_state, boot>>
  /\ UNCHANGED <<pvars, imports>>

\* GlobalInstance::get()
GlobalGet ==
  /\ run_res' = [NoRes EXCEPT !.op = "global_get", !.kind = "Ok",
                              !.values = << global_get(instance[1].globals[1]) >>]
  /\ UNCHANGED <<module, instance, exec_handle, old_stack, serialized_state, hist, boot>>
  /\ UNCHANGED <<pvars, imports>>

GlobalNext ==
  \/ \E val \in GlobalValues : GlobalSet(val)
  \/ GlobalGet

GlobalSpec == GlobalInit /\ [][GlobalNext]_vars

\* ------------------------------------------------------- the linking host

\* What a host may define: the driver's two functions, a global, a memory, a
\* table, and a function no module here imports.
Providers ==
  HostImports \cup
  { [name |-> "glob", module |-> "env",
     ext |-> Extern("Global", [ty |-> "I32", mutable |-> FALSE], 42)],
    [name |-> "mem", module |-> "env", ext |-> Extern("Memory", 2, "mem")],
    [name |-> "tab", module |-> "env", ext |-> Extern("Table", 3, "tab")],
    [name |-> "extra", module |-> "env", ext |-> Extern("Func", FuncType(<<>>, <<>>), "extra")] }

LinkInit ==
  /\ module \in LinkModuleIds
  /\ instance = <<>>
  /\ exec_handle = <<>>
  /\ old_stack = <<>>
  /\ serialized_state = <<>>
  /\ run_res = NoRes
  /\ hist = NoHist
  /\ boot = "none"
  /\ imports = ImportsNew
  /\ reader = ModuleReaderNew
  /\ parsing = NoParsing
  /\ parse_res = NoParse

\* imports.define(module, name, extern), before the module is instantiated.
Define(e) ==
  /\ boot = "none"
  /\ \A d \in imports : d.module # e.module \/ d.name # e.name
  /\ imports' = define(imports, e.module, e.name, e.ext)
  /\ UNCHANGED <<module, instance, exec_handle, old_stack, serialized_state, run_res, hist, boot>>
  /\ UNCHANGED pvars

\* Instance::instantiate(module, imports) with the Imports defined so far.
InstantiateLinked ==
  /\ instance = <<>> /\ boot = "none"
  /\ \E r \in {instantiate_linked(Mod, imports)} :
       /\ instance' = r.instance
       /\ boot' = IF r.kind = "Ok" THEN "plain" ELSE "failed"
       /\ run_res' = [NoRes EXCEPT !.op = "instantiate", !.kind = r.kind, !.trap = r.trap]
  /\ UNCHANGED <<module, exec_handle, old_stack, serialized_state, hist, imports>>
  /\ UNCHANGED pvars

\* instance.start(max_cycles) on an instance not started yet.
Start(max_cycles) ==
  /\ IsSome(instance) /\ boot = "plain"
  /\ \E r \in {start(Mod, instance[1], max_cycles)} :
       /\ instance' = Some(r.inst)
       /\ boot' = CASE r.called = "None" -> "nostart"
                    [] r.called = "Done" -> "started"
                    [] OTHER -> "suspended"
       /\ run_res' = [NoRes EXCEPT !.op = "start", !.max_cycles = max_cycles,
                                   !.kind = IF r.called = "None" THEN "None" ELSE "Some"]
  /\ UNCHANGED <<module, exec_handle, old_stack, serialized_state, hist, imports>>
  /\ UNCHANGED pvars

\* --------------------------------------------- the host stepping the guest

\* The budgets of a host that runs one instruction at a time or to the end.
StepBudgets == {1, MAX_CYCLES}

ExecInit ==
  /\ module \in ExecModuleIds
  /\ instance = <<>>
  /\ exec_handle = <<>>
  /\ old_stack = <<>>
  /\ serialized_state = <<>>
  /\ run_res = NoRes
  /\ hist = NoHist
  /\ boot = "none"
  /\ imports = HostImports
  /\ reader = ModuleReaderNew
  /\ parsing = NoParsing
  /\ parse_res = NoParse

\* Stack::default, what core::mem::take leaves behind.
StackDefault == [values |-> <<>>, call_stack |-> <<>>]

\* ExecHandle::serialize() when rkyv::to_bytes returns an error: the stack
\* and the memory data have been taken into the SerializationState, the `?`
\* returns the error, and the two assignments that move them back are not
\* reached.
SerializeFailed ==
  /\ ~Crashed
  /\ IsSome(exec_handle)
  /\ Len(instance[1].memories) > 0
  /\ exec_handle' = Some([exec_handle[1] EXCEPT !.stack = StackDefault])
  /\ instance' = Some([instance[1] EXCEPT !.memories[1].data = <<>>])
  /\ run_res' = [NoRes EXCEPT !.op = "serialize", !.kind = "Err"]
  /\ UNCHANGED <<module, old_stack, serialized_state, hist, boot>>
  /\ UNCHANGED <<pvars, imports>>

ExecNext ==
  \/ Instantiate
  \/ \E f \in Mod.exports : \E params \in ArgSets(Mod, f) : TypedCall(f, params, FALSE)
  \/ \E max_cycles \in StepBudgets : Run(max_cycles)
  \/ DropHandle
  \/ Serialize
  \/ SerializeFailed

ExecSpec == ExecInit /\ [][ExecNext]_vars

LinkNext ==
  \/ \E e \in Providers : Define(e)
  \/ InstantiateLinked
  \/ \E max_cycles \in Budgets : Start(max_cycles)

LinkSpec == LinkInit /\ [][LinkNext]_vars

\* ---------------------------------------------------------- loader, running

\* The run of the loader after payload p: the kinds seen before it, p as the
\* last payload, the End payloads processed, and whether the payloads are over.
Fed(p, ok, finished) ==
  [parsing EXCEPT !.fed = @ + 1,
                  !.seen = @ \cup { parsing.last[i].kind : i \in 1..Len(parsing.last) },
                  !.last = <<p>>,
                  !.ends = IF ok /\ p.kind = "End" THEN @ + 1 ELSE @,
                  !.finished = finished]

\* Parser::parse_module_bytes, one turn of its loop: the next payload of
\* parse_all is processed; parse_all yields nothing after End.
BytesPayload(p) ==
  /\ parsing.mode = "bytes" /\ parse_res = NoParse /\ parsing.fed < MaxPayloads
  /\ \E r \in {process_payload(reader, p)} :
       /\ reader' = r.reader
       /\ parse_res' = IF r.res # "Ok" THEN ParseErr(r.res)
                       ELSE IF p.kind = "End" THEN parse_module_bytes_end(r.reader)
                       ELSE NoParse
       /\ parsing' = Fed(p, r.res = "Ok", r.res = "Ok" /\ p.kind = "End")
  /\ UNCHANGED mvars

\* Parser::parse_module_bytes: the payloads are over and no End was among them.
BytesExhausted ==
  /\ parsing.mode = "bytes" /\ parse_res = NoParse
  /\ parse_res' = parse_module_bytes_end(reader)
  /\ parsing' = [parsing EXCEPT !.finished = TRUE]
  /\ UNCHANGED <<reader>>
  /\ UNCHANGED mvars

\* Parser::parse_module_stream, one turn of its loop that parses a payload: it
\* is processed, and the module is built once the stream is at its end or the
\* End payload has been processed.
StreamPayload(p, eof) ==
  /\ parsing.mode = "stream" /\ parse_res = NoParse /\ parsing.fed < MaxPayloads
  /\ \E r \in {process_payload(reader, p)} :
       /\ reader' = r.reader
       /\ parse_res' = IF r.res # "Ok" THEN ParseErr(r.res)
                       ELSE IF eof \/ r.reader.end_reached THEN try_from(r.reader)
                       ELSE NoParse
       /\ parsing' = Fed(p, r.res = "Ok", r.res = "Ok" /\ (eof \/ p.kind = "End"))
  /\ UNCHANGED mvars

\* The bytes are malformed (either parser), or the stream cannot be read.
Malformed(error) ==
  /\ parsing.mode \in {"bytes", "stream"} /\ parse_res = NoParse
  /\ error = "Other" => parsing.mode = "stream"
  /\ parse_res' = ParseErr(error)
  /\ UNCHANGED <<reader, parsing>>
  /\ UNCHANGED mvars

ParseInit ==
  /\ module = 0
  /\ instance = <<>>
  /\ exec_handle = <<>>
  /\ old_stack = <<>>
  /\ serialized_state = <<>>
  /\ run_res = NoRes
  /\ hist = NoHist
  /\ boot = "none"
  /\ imports = ImportsNew
  /\ reader = ModuleReaderNew
  /\ parsing \in { [NoParsing EXCEPT !.mode = mode] : mode \in {"bytes", "stream"} }
  /\ parse_res = NoParse

ParseNext ==
  \/ \E p \in Payloads : BytesPayload(p)
  \/ BytesExhausted
  \/ \E p \in Payloads, eof \in BOOLEAN : StreamPayload(p, eof)
  \/ \E error \in {"ParseError", "Other"} : Malformed(error)

ParseSpec == ParseInit /\ [][ParseNext]_vars

\* ------------------------------------------------------------- properties

\* The last call / run result belongs to the current invocation.
Live == run_res.op \in {"call", "run"} /\ ~hist.over /\ hist.calls > 0

\* The Stack of the current invocation, wherever it is held.
HeldStack == IF IsSome(exec_handle) THEN <<exec_handle[1].stack>> ELSE old_stack

\* The current invocation run from its start without interruption, for at
\* most k cycles, and to its end.
Uninterrupted(k) ==
  exec(Mod, call_stack_of(Mod, hist.func, hist.params, <<>>), hist.inv0[1], k)

Whole == Uninterrupted(MaxTotal + MAX_CYCLES)

InstrAt(pos) == Mod.funcs[pos[1] + 1].instructions[pos[2] + 1]

\* C1: a run or call dispatches at most max_cycles instructions, each counted
\* as one cycle; it returns Incomplete only with the budget used up and the
\* function not yet returned, never with budget to spare; it returns Done only
\* when the outermost function has returned.
C1Budget ==
  (Live /\ run_res.kind \in {"Incomplete", "Done", "Trap"}) =>
    /\ run_res.cycles <= run_res.max_cycles
    /\ Len(hist.trace) = hist.cycles
    /\ run_res.kind = "Incomplete" =>
         /\ run_res.cycles = run_res.max_cycles
         /\ IsSome(HeldStack) /\ Len(HeldStack[1].call_stack) > 0
    /\ run_res.kind = "Done" =>
         /\ hist.cycles > 0 /\ InstrAt(hist.trace[hist.cycles]).op = "EndFunc"
         /\ IsSome(HeldStack) => Len(HeldStack[1].call_stack) = 0

C1Witness ==
  /\ Live /\ run_res.kind = "Done"
  /\ run_res.cycles < run_res.max_cycles
  /\ hist.cycles > run_res.cycles

\* C2: whatever the chunking, the Done values, the memory and the globals equal
\* those of one uninterrupted run of the same invocation.
C2Chunking ==
  (Live /\ ~hist.restored /\ run_res.kind = "Done") =>
    \E w \in {Whole} :
      /\ w.outcome = "Return"
      /\ run_res.values = call_result(w, Mod.funcs[hist.func + 1].ty).values
      /\ instance[1].memories = w.inst.memories
      /\ instance[1].globals = w.inst.globals

C2Witness ==
  /\ Live /\ ~hist.restored /\ run_res.kind = "Done"
  /\ hist.cycles > run_res.cycles + MaxChunk
  /\ instance # hist.inv0

\* C3: on Incomplete the stack held for the invocation is the stack of the
\* uninterrupted run after the same number of cycles, the store likewise, the
\* instructions dispatched so far are those of the uninterrupted run in the
\* same order, and the next run starts at the instruction the uninterrupted
\* run dispatches next.
C3Resume ==
  (Live /\ ~hist.restored /\ run_res.kind = "Incomplete") =>
    \E u \in {Uninterrupted(hist.cycles)}, n \in {Uninterrupted(hist.cycles + 1)} :
      /\ u.trace = hist.trace
      /\ IsSome(HeldStack) /\ HeldStack[1] = u.stack
      /\ instance[1] = u.inst
      /\ Len(n.trace) = hist.cycles + 1
      /\ n.trace[hist.cycles + 1] =
           << Top(HeldStack[1].call_stack).func_ptr, Top(HeldStack[1].call_stack).instr_ptr >>

C3Witness ==
  /\ Live /\ ~hist.restored /\ run_res.kind = "Incomplete"
  /\ hist.cycles > run_res.cycles /\ run_res.cycles > 0
  /\ IsSome(exec_handle) /\ Len(exec_handle[1].stack.call_stack) >= 2
  /\ Top(exec_handle[1].stack.call_stack).block_frames # <<>>

\* C5: the cycles consumed until Done, summed over the chunks, are the cycles
\* of the uninterrupted run, whatever the chunking.
C5Cycles ==
  (Live /\ ~hist.restored /\ run_res.kind = "Done") => hist.cycles = Whole.cycles

C5Witness ==
  /\ Live /\ ~hist.restored /\ run_res.kind = "Done"
  /\ run_res.max_cycles = 1 /\ hist.cycles > MaxChunk

\* C6: after Done for a function with m results, the values returned are the
\* top m cells of the value stack, bottom to top in the declared order, each
\* tagged with the declared result type.
C6Results ==
  (Live /\ run_res.kind = "Done" /\ IsSome(exec_handle)) =>
    LET results == Mod.funcs[hist.func + 1].ty.results
        cells   == exec_handle[1].stack.values
    IN /\ Len(run_res.values) = Len(results)
       /\ Len(cells) >= Len(results)
       /\ \A i \in 1..Len(results) :
            run_res.values[i] =
              [ty |-> results[i], val |-> cells[Len(cells) - Len(results) + i]]

C6Witness ==
  /\ Live /\ run_res.kind = "Done" /\ IsSome(exec_handle)
  /\ Len(run_res.values) = 2 /\ run_res.values[1].ty # run_res.values[2].ty

\* C4: for an invocation whose uninterrupted run returns, a host that keeps
\* running it with positive budgets eventually gets Done.
Terminates == hist.calls > 0 /\ Whole.outcome = "Return"

C4Progress == (hist.active /\ Terminates) ~> (Live /\ run_res.kind = "Done")

C4Witness ==
  /\ Live /\ run_res.op = "run" /\ run_res.kind = "Done"
  /\ run_res.max_cycles = MaxChunk /\ hist.cycles > 2 * MaxChunk

C8Idempotent ==
  (IsSome(serialized_state) /\ IsSome(hist.blob) /\ IsSome(exec_handle)) =>
    serialized_state[1] = hist.blob[1]

C8Witness ==
  /\ IsSome(serialized_state) /\ IsSome(hist.blob) /\ IsSome(exec_handle)
  /\ hist.active /\ hist.cycles > MaxChunk

\* C9: an invocation that has gone through serialize, drop and restore, at
\* whatever cycle counts and however often, ends as the uninterrupted run does:
\* the same Done values after the same total of cycles, hence the same number
\* of cycles remaining after each restore.
C9Restored ==
  (Live /\ hist.restored /\ ~hist.active /\ run_res.kind \in {"Done", "Trap", "Err"}) =>
    \E w \in {Whole} :
      \E cr \in {call_result(w, Mod.funcs[hist.func + 1].ty)} :
        /\ run_res.kind = cr.kind
        /\ run_res.values = cr.values
        /\ hist.cycles = w.cycles

C9Witness ==
  /\ Live /\ hist.restored /\ run_res.kind = "Done"
  /\ hist.cycles > MaxChunk
  /\ \E i \in 1..Len(instance[1].memories[1].data) : instance[1].memories[1].data[i] # 0

\* C10: serialize on a handle yields a blob that holds each memory's bytes
\* and each global's cell, whatever number of memories and globals the
\* instance has, an instance without memory included.
C10Captures ==
  [][ Serialize =>
        /\ IsSome(serialized_state')
        /\ \E st \in {from_bytes(serialized_state'[1])} :
             /\ st.globals = [i \in 1..Len(instance[1].globals) |-> instance[1].globals[i].value]
             /\ IF Len(instance[1].memories) = 0
                THEN st.memory = <<>>
                ELSE st.memory = instance[1].memories[1].data
    ]_vars

\* C11: the blob serialize produces begins with a magic prefix and a version
\* integer: the archived stack, memory and globals come after a prefix of at
\* least two bytes.
C11Header ==
  [][ (Serialize /\ IsSome(serialized_state')) =>
        \E h \in 2..Len(serialized_state'[1]) :
          SubSeq(serialized_state'[1], h + 1, Len(serialized_state'[1])) =
            EncStack(exec_handle[1].stack) \o EncBytes(instance[1].memories[1].data)
              \o EncCells([i \in 1..Len(instance[1].globals) |-> instance[1].globals[i].value])
    ]_vars

\* C12: instantiate_with_state rejects a snapshot taken from a module that
\* differs in function count, type signatures, memory count or global count
\* from the module it is given.
C12Mismatch ==
  [][ (module' # module /\ ModuleMeta(Library[module']) # ModuleMeta(Mod)) =>
        (instance' = <<>> /\ run_res'.kind # "Ok")
    ]_vars

\* The start function of hello counts its runs in global 0 and leaves
\* mem[1] = mem[0] + 1; no other function of hello writes either.
StartRuns == instance[1].globals[1].value

StartRun ==
  exec(Mod, call_stack_of(Mod, Mod.start_func[1], <<>>, <<>>),
       instantiate(Mod).instance[1], MaxTotal + MAX_CYCLES)

\* C14: instantiating a module that declares a start function runs that
\* function after the data segments are in place: the instance handed out is
\* the store the start function leaves behind, and if the start function
\* traps, the trap is the error and no instance is handed out.
C14Start ==
  (boot \notin {"none", "foreign"} /\ Mod.start_func # <<>> /\ hist.calls = 0
     /\ instantiate(Mod).kind = "Ok") =>
    \E s \in {StartRun} :
      IF s.outcome = "Trap"
      THEN instance = <<>> /\ run_res.kind = "Trap" /\ run_res.trap = s.trap
      ELSE IsSome(instance) /\ instance[1] = s.inst

\* C15: when a step of instantiate traps, the caller gets the trap and
\* nothing else: no instance, no handle, no stack.
C15Atomic ==
  /\ boot = "failed" =>
       /\ instance = <<>> /\ exec_handle = <<>> /\ old_stack = <<>>
       /\ run_res.op \in {"instantiate", "instantiate_start"} /\ run_res.kind = "Trap"
  /\ boot \notin {"none", "foreign"} =>
       \E el \in {init_elements(init_tables(Mod.table_types), <<>>, Mod.elements, 1)},
          da \in {init_datas(init_memories(Mod.memory_pages), Mod.data, 1)} :
         (el.trap # None \/ da.trap # None) =>
           /\ boot = "failed" /\ instance = <<>>
           /\ run_res.trap = IF el.trap # None THEN el.trap ELSE da.trap

C15Witness ==
  /\ boot = "failed" /\ Mod.name = "databad"
  /\ run_res.op = "instantiate_start" /\ run_res.trap = "OutOfBoundsMemoryAccess"

\* Segment i of the module is active and runs past the end of its table.
ElemOutOfRange(i) ==
  LET e == Mod.elements[i]
  IN /\ e.kind = "Active"
     /\ \/ e.offset < 0
        \/ e.offset + Len(e.items) > Mod.table_types[e.table + 1]

\* C16: element initialisation with an active segment out of range hands back
\* a trap; in the tables are the items of the active segments before it, the
\* later of two that overlap winning, and not one item of the segment out of
\* range or of a segment after it.
C16Elements ==
  (boot # "none" /\ \E i \in 1..Len(Mod.elements) : ElemOutOfRange(i)) =>
    \E r \in {init_elements(init_tables(Mod.table_types), <<>>, Mod.elements, 1)} :
      LET k == CHOOSE i \in 1..Len(Mod.elements) :
                 ElemOutOfRange(i) /\ \A j \in 1..(i - 1) : ~ElemOutOfRange(j)
          Writers(t, slot) ==
            { i \in 1..(k - 1) :
                /\ Mod.elements[i].kind = "Active" /\ Mod.elements[i].table + 1 = t
                /\ slot > Mod.elements[i].offset
                /\ slot <= Mod.elements[i].offset + Len(Mod.elements[i].items) }
          Expected(t, slot) ==
            IF Writers(t, slot) = {} THEN <<>>
            ELSE LET w == CHOOSE i \in Writers(t, slot) : \A j \in Writers(t, slot) : j <= i
                 IN << Mod.elements[w].items[slot - Mod.elements[w].offset] >>
      IN /\ r.trap = "OutOfBoundsTableAccess"
         /\ Len(r.tables) = Len(Mod.table_types)
         /\ \A t \in 1..Len(r.tables) :
              /\ Len(r.tables[t].elements) = Mod.table_types[t]
              /\ \A slot \in 1..Len(r.tables[t].elements) :
                   r.tables[t].elements[slot] = Expected(t, slot)
         /\ run_res.kind = "Trap" /\ run_res.trap = r.trap /\ instance = <<>>

C16Witness ==
  /\ boot = "failed" /\ Mod.name = "elembad"
  /\ run_res.op = "instantiate" /\ run_res.trap = "OutOfBoundsTableAccess"

\* The store has the memories and globals instantiate gave it, whatever they
\* now hold.
StoreIntact ==
  \E fresh \in {instantiate(Mod).instance[1]} :
    /\ Len(instance[1].memories) = Len(fresh.memories)
    /\ \A i \in 1..Len(fresh.memories) :
         Len(instance[1].memories[i].data) = Len(fresh.memories[i].data)
    /\ Len(instance[1].globals) = Len(fresh.globals)
    /\ \A i \in 1..Len(fresh.globals) : instance[1].globals[i].ty = fresh.globals[i].ty

\* C17: a trap ends the invocation and leaves the instance usable: the store
\* keeps its memories and globals, and a fresh call made afterwards runs as
\* the uninterrupted run of that call from the store the trap left, to the
\* same results and the same store; it is Done whenever that run returns.
C17Recover ==
  /\ (Live /\ run_res.kind = "Trap") => (IsSome(instance) /\ StoreIntact /\ ~hist.active)
  /\ (Live /\ hist.after_trap /\ ~hist.restored /\ ~hist.active) =>
       \E w \in {Whole} :
         \E cr \in {call_result(w, Mod.funcs[hist.func + 1].ty)} :
           /\ run_res.kind = cr.kind
           /\ run_res.values = cr.values
           /\ instance[1] = w.inst
           /\ hist.cycles = w.cycles
           /\ w.outcome = "Return" <=> run_res.kind = "Done"
           /\ StoreIntact

C17Witness ==
  /\ Live /\ hist.after_trap /\ run_res.kind = "Done"
  /\ Mod.name = "guard" /\ hist.cycles > 2 * MaxChunk
  /\ run_res.values = << I32(9) >>
  /\ instance[1].globals[1].value > 3

\* C18: the second occurrence of a section other than Custom is answered with
\* DuplicateSection, whatever the first occurrence held.
C18Duplicate ==
  (parsing.last # <<>> /\ parsing.last[1].kind \in SectionKinds
     /\ parsing.last[1].kind \in parsing.seen) =>
    parse_res = ParseErr("DuplicateSection")

\* C19: a Module is produced only when exactly one End payload was processed
\* and it was the last payload; payloads that are over without End give
\* EndNotReached; an End after End is an error; for either parser.
C19End ==
  /\ parse_res.kind = "Ok" =>
       /\ parsing.ends = 1 /\ parsing.last[1].kind = "End" /\ reader.end_reached
       /\ IsSome(parse_res.module)
  /\ (parsing.finished /\ parsing.ends = 0) => parse_res = ParseErr("EndNotReached")
  /\ parsing.ends <= 1
  /\ reader.end_reached =>
       \A v \in BOOLEAN :
         process_payload(reader, Payload("End", 0, v, "Module")).res = "DuplicateSection"

C19Witness ==
  /\ parse_res.kind = "Ok" /\ parsing.mode = "stream"
  /\ parsing.seen = {"Version", "TypeSection"}

\* C20: an unknown section, or a payload the loader has no arm for, is
\* answered with UnsupportedSection; a component is rejected; no Module is
\* produced from a run that met either.
C20Unsupported ==
  /\ (parsing.last # <<>> /\ parsing.last[1].kind \in {"UnknownSection"} \cup OtherKinds) =>
       parse_res = ParseErr("UnsupportedSection")
  /\ (parsing.last # <<>> /\ parsing.last[1].kind = "Version"
        /\ parsing.last[1].encoding = "Component") =>
       (parse_res.kind = "Err" /\ parse_res.error \in {"InvalidEncoding", "ParseError"})
  /\ parse_res.kind = "Err" => parse_res.module = <<>>
  /\ parse_res.kind = "Ok" =>
       /\ parsing.seen \cap ({"UnknownSection"} \cup OtherKinds) = {}
       /\ reader.version # <<>> \/ "Version" \notin parsing.seen

C20Witness ==
  /\ parsing.last # <<>> /\ parsing.last[1].kind = "UnknownSection"
  /\ parsing.mode = "bytes" /\ parsing.seen = {"Version", "CustomSection"}
  /\ parse_res.kind = "Err"

\* C21: a custom section is answered with Ok and leaves every field of the
\* loader state as it was, so that the Module built is the one built of the
\* other payloads alone.
C21Custom ==
  [][ /\ (parsing'.fed = parsing.fed + 1 /\ parsing'.last[1].kind = "CustomSection") =>
           /\ reader' = reader
           /\ process_payload(reader, parsing'.last[1]) = PayloadOk(reader)
           /\ parse_res' = IF parsing'.finished THEN try_from(reader) ELSE NoParse
      /\ parse_res'.kind = "Ok" => parse_res'.module = << TinyWasmModule(reader') >>
    ]_vars

C21Witness ==
  /\ parse_res.kind = "Ok" /\ "CustomSection" \in parsing.seen
  /\ parsing.fed = MaxPayloads
  /\ parse_res.module = << TinyWasmModule(ModuleReaderNew) >>

\* C22: in the streaming loader a failure to read the stream is reported as
\* the Io error kind, and no Module is produced.
C22Io ==
  [][ Malformed("Other") => (parse_res' = ParseErr("Io") /\ parse_res'.module = <<>>) ]_vars

\* C25: GlobalInstance::set with a value of another type than the global's, or
\* on an immutable global, returns an error and leaves the stored value as it
\* was; set with the declared type on a mutable global succeeds, and the get
\* that follows returns the value set.
C25GlobalSet ==
  [][ /\ run_res'.op = "global_set" =>
           \E g \in {instance[1].globals[1]}, val \in {hist'.params[1]} :
             IF val.ty # g.ty.ty \/ ~g.ty.mutable
             THEN run_res'.kind = "Err" /\ instance' = instance
             ELSE /\ run_res'.kind = "Ok"
                  /\ global_get(instance'[1].globals[1]) = val
                  /\ instance'[1].globals[1].ty = g.ty
      /\ (run_res.op = "global_set" /\ run_res.kind = "Ok" /\ run_res'.op = "global_get") =>
           run_res'.values = hist.params
    ]_vars

C25Witness ==
  /\ run_res.op = "global_set" /\ run_res.kind = "Err"
  /\ hist.calls = 2 /\ hist.params[1].ty = "F32"
  /\ instance # hist.inv0
  /\ global_get(instance[1].globals[1]) = attach_type(I32Min, "I32")

\* ------------------------------------------------------- linking (LinkSpec)

\* The entries defined under the module and field name of an import.
ProvidedFor(imp) == { d \in imports : d.module = imp.module /\ d.name = imp.name }

\* The imports of the module nobody has defined.
MissingImports == { i \in 1..Len(Mod.imports) : ProvidedFor(Mod.imports[i]) = {} }

\* The imports of the module defined with something that does not fit.
UnfitImports ==
  { i \in 1..Len(Mod.imports) :
      \E d \in ProvidedFor(Mod.imports[i]) : ~compatible(Mod.imports[i], d.ext) }

ImportsOf(kind) == SelectSeq(Mod.imports, LAMBDA imp : imp.kind = kind)

ProviderOf(imp) == (CHOOSE d \in ProvidedFor(imp) : TRUE).ext

\* C24: in each address array of an instance the imports of that kind come
\* first, in import order, and the module's own definitions follow, in
\* definition order: the store entry behind position i is the provider of the
\* i-th import of the kind, or the definition numbered i less the number of
\* imports.
C24AddressOrder ==
  IsSome(instance) =>
    LET inst == instance[1]
        fi == ImportsOf("Func")
        ti == ImportsOf("Table")
        mi == ImportsOf("Memory")
        gi == ImportsOf("Global")
    IN /\ Len(inst.func_addrs) = Len(fi) + Len(Mod.funcs)
       /\ \A i \in 1..Len(inst.func_addrs) :
            inst.funcs[inst.func_addrs[i] + 1] =
              IF i <= Len(fi)
              THEN [kind |-> "Host", id |-> ProviderOf(fi[i]).val, ty |-> fi[i].ty]
              ELSE [kind |-> "Wasm", id |-> i - Len(fi) - 1, ty |-> Mod.funcs[i - Len(fi)].ty]
       /\ Len(inst.table_addrs) = Len(ti) + Len(Mod.table_types)
       /\ \A i \in 1..Len(inst.table_addrs) :
            Len(inst.tables[inst.table_addrs[i] + 1].elements) =
              IF i <= Len(ti) THEN ProviderOf(ti[i]).ty ELSE Mod.table_types[i - Len(ti)]
       /\ Len(inst.mem_addrs) = Len(mi) + Len(Mod.memory_pages)
       /\ \A i \in 1..Len(inst.mem_addrs) :
            Len(inst.memories[inst.mem_addrs[i] + 1].data) =
              PageSize * (IF i <= Len(mi) THEN ProviderOf(mi[i]).ty
                          ELSE Mod.memory_pages[i - Len(mi)])
       /\ Len(inst.global_addrs) = Len(gi) + Len(Mod.globals)
       /\ \A i \in 1..Len(inst.global_addrs) :
            inst.globals[inst.global_addrs[i] + 1].ty =
              IF i <= Len(gi) THEN ProviderOf(gi[i]).ty
              ELSE [ty |-> Mod.globals[i - Len(gi)].ty,
                    mutable |-> Mod.globals[i - Len(gi)].mutable]

\* linkall instantiated: two imported functions before its own two, and the
\* imported table, memory and global before its own.
C24Witness ==
  /\ Mod.name = "linkall" /\ IsSome(instance) /\ boot = "plain"
  /\ instance[1].func_addrs = <<0, 1, 2, 3>>
  /\ instance[1].funcs[2].id = "progress" /\ instance[1].funcs[3].kind = "Wasm"
  /\ instance[1].global_addrs = <<0, 1>> /\ instance[1].globals[1].value = 42
  /\ Len(instance[1].tables[1].elements) = 3 /\ Len(instance[1].tables[2].elements) = 2

\* The module-level index of the function start_func is to give: the declared
\* start function, else the function exported as _start, else none.
ExpectedStart ==
  IF Mod.start_func # <<>> THEN << Mod.start_func[1] >>
  ELSE IF Mod.export_start # <<>> /\ Mod.export_start[1].kind = "Func"
       THEN << Mod.export_start[1].index >>
       ELSE <<>>

\* The instance after the function at a module-level index has run to its
\* end on a fresh instance.
AfterStart(index) ==
  call(Mod, index - Len(ImportsOf("Func")), <<>>, <<>>,
       instantiate_linked(Mod, imports).instance[1], MAX_CYCLES).inst

\* C26: start_func gives the declared start function when there is one, else
\* the function exported as _start, else nothing; start reports None exactly
\* when start_func gives nothing, and a start that came to its end has run
\* that function and no other.
C26StartFunc ==
  IsSome(instance) =>
    LET inst == instance[1]
        sf == start_func(Mod, inst)
    IN /\ (sf = <<>>) <=> (ExpectedStart = <<>>)
       /\ ExpectedStart # <<>> =>
            /\ inst.funcs[sf[1].addr + 1] =
                 [kind |-> "Wasm", id |-> ExpectedStart[1] - Len(ImportsOf("Func")),
                  ty |-> Mod.funcs[ExpectedStart[1] - Len(ImportsOf("Func")) + 1].ty]
            /\ sf[1].ty = Mod.funcs[ExpectedStart[1] - Len(ImportsOf("Func")) + 1].ty
       /\ run_res.op = "start" =>
            /\ (run_res.kind = "None") <=> (ExpectedStart = <<>>)
            /\ (boot = "nostart") <=> (ExpectedStart = <<>>)
       /\ boot = "nostart" => inst = instantiate_linked(Mod, imports).instance[1]
       /\ boot = "started" => inst = AfterStart(ExpectedStart[1])

\* linklog declares no start function and exports function 2 as _start: start
\* has run it, and global 0 holds the 7 it writes.
C26Witness ==
  /\ Mod.name = "linklog" /\ boot = "started"
  /\ run_res.op = "start" /\ run_res.kind = "Some"
  /\ start_func(Mod, instance[1])[1].addr = 2
  /\ instance[1].globals[1].value = 7

\* ------------------------------------------- single instructions (ExecSpec)

\* The stack of the handle, its current call frame and the instruction the next
\* dispatch executes.
PreStack == exec_handle[1].stack

PreFrame == Top(PreStack.call_stack)

StepInstr == InstrAt(<<PreFrame.func_ptr, PreFrame.instr_ptr>>)

\* A step in which run dispatches exactly one instruction.
OneStep ==
  /\ IsSome(exec_handle) /\ hist.active
  /\ run_res'.op = "run" /\ run_res'.cycles = 1
  /\ hist'.cycles = hist.cycles + 1

\* The stack after the step, and the call frame put back by a yield or a trap.
PostStack == exec_handle'[1].stack

PostFrame == Top(PostStack.call_stack)

\* The operands of a binary instruction: b on top, a below it.
OperandA == PreStack.values[Len(PreStack.values) - 1]

OperandB == Top(PreStack.values)

Taken == PostFrame.instr_ptr # PreFrame.instr_ptr + 1

\* The block frame a branch instruction of the step names.
Target == PreFrame.block_frames[Len(PreFrame.block_frames) - StepInstr.a]

\* The cells an instruction pops and the cells it pushes.  A call pops the
\* parameters of the function called; the results are pushed by the
\* instructions of the callee.
Arity(instr) ==
  CASE instr.op \in {"Nop", "Block", "Loop", "EndBlockFrame", "EndFunc"} -> <<0, 0>>
    [] instr.op \in {"Drop", "LocalSet", "GlobalSet", "BrIf"} -> <<1, 0>>
    [] instr.op \in {"LocalGet", "GlobalGet", "I32Const", "I64Const"} -> <<0, 1>>
    [] instr.op \in {"LocalTee", "I32Eqz", "I32Load8U"} -> <<1, 1>>
    [] instr.op \in {"I32Add", "I32Sub", "I32LtS", "I32Eq", "I32DivS", "I64DivS"} -> <<2, 1>>
    [] instr.op = "I32Store8" -> <<2, 0>>
    [] instr.op = "Select" -> <<3, 1>>
    [] instr.op = "Call" -> << Len(Mod.funcs[instr.a + 1].ty.params), 0 >>
    [] OTHER -> <<0, 0>>

\* C28: whatever instruction is dispatched and whichever way it goes, the
\* height of the value stack afterwards is the height before, less the cells
\* the instruction pops, plus the cells it pushes.  A trapping instruction has
\* popped its operands and pushed nothing; a branch taken leaves the cells of
\* its label above the height recorded at the entry of its target.
C28Conservation ==
  [][ OneStep =>
        LET before == Len(PreStack.values)
            after  == Len(PostStack.values)
            ar     == Arity(StepInstr)
        IN IF run_res'.kind = "Trap" THEN after = before - ar[1]
           ELSE IF StepInstr.op = "Br" \/ (StepInstr.op = "BrIf" /\ Taken)
           THEN after = Target.stack_ptr + LabelArity(Target)
           ELSE after = before - ar[1] + ar[2]
    ]_vars

\* C29: after a branch to a block of result arity r the top r cells are the r
\* cells that were on top when the branch executed, in order, directly above
\* the height recorded at the block's entry, and execution goes on behind the
\* block's end with the block left; for a loop the arity is that of its
\* parameters and execution goes on at the loop's start, inside the loop.
C29Label ==
  [][ (OneStep /\ (StepInstr.op = "Br" \/ (StepInstr.op = "BrIf" /\ Taken))) =>
        LET r     == LabelArity(Target)
            cells == IF StepInstr.op = "BrIf" THEN Pop(PreStack.values) ELSE PreStack.values
            n     == Len(PreFrame.block_frames)
        IN /\ Len(PostStack.values) = Target.stack_ptr + r
           /\ last_n(PostStack.values, r) = last_n(cells, r)
           /\ trim(PostStack.values, Target.stack_ptr) = trim(cells, Target.stack_ptr)
           /\ IF Target.block = "Loop"
              THEN /\ PostFrame.instr_ptr = Target.instr_ptr + 1
                   /\ PostFrame.block_frames = SubSeq(PreFrame.block_frames, 1, n - StepInstr.a)
              ELSE /\ PostFrame.instr_ptr = Target.end_instr_ptr + 1
                   /\ PostFrame.block_frames =
                        SubSeq(PreFrame.block_frames, 1, n - StepInstr.a - 1)
    ]_vars

\* The br guest's function 1 called with 4, after its br: of the four cells
\* above the 5 the block was entered on, the top two are left, in order.
C29Witness ==
  /\ Mod.name = "br" /\ hist.func = 1 /\ hist.params = << I32(4) >>
  /\ hist.active /\ hist.cycles = 7
  /\ IsSome(exec_handle) /\ exec_handle[1].stack.values = <<5, 4, 3>>
  /\ Top(exec_handle[1].stack.call_stack).instr_ptr = 8
  /\ Top(exec_handle[1].stack.call_stack).block_frames = <<>>

\* C30: br_if pops one i32 and branches to its label exactly when the value
\* is not zero, negative values included; on zero execution goes on with the
\* next instruction.
C30BrIf ==
  [][ (OneStep /\ StepInstr.op = "BrIf") =>
        /\ Taken <=> (OperandB # 0)
        /\ ~Taken => PostStack.values = Pop(PreStack.values)
    ]_vars

\* The function of the current call frame.
PreFunc == Mod.funcs[PreFrame.func_ptr + 1]

\* C31: return, at whatever block depth, ends the function: the frame is
\* popped with all its block frames, the top cells of the function's result
\* arity stay on top, and execution goes on in the caller, or ends when there
\* is none; the instruction behind the return is not executed.
C31Return ==
  [][ (OneStep /\ StepInstr.op = "Return") =>
        LET r == Len(PreFunc.ty.results)
        IN /\ PostStack.call_stack = Pop(PreStack.call_stack)
           /\ last_n(PostStack.values, r) = last_n(PreStack.values, r)
           /\ Len(PreStack.call_stack) = 1 => run_res'.kind = "Done"
    ]_vars

\* C32: call idx goes through func_addrs to the function in the store, pops
\* as many cells as that function has parameters, and starts it in a new
\* frame whose locals are those cells in order and a zero for each declared
\* local, above the frame of the caller.
C32Call ==
  [][ (OneStep /\ StepInstr.op = "Call") =>
        LET addr   == instance[1].func_addrs[StepInstr.a + 1]
            callee == Mod.funcs[instance[1].funcs[addr + 1].id + 1]
            k      == Len(callee.ty.params)
            n      == Len(PreStack.values)
        IN /\ PostStack.values = SubSeq(PreStack.values, 1, n - k)
           /\ PostFrame = CallFrameNew(addr, last_n(PreStack.values, k), callee.locals)
           /\ Len(PostStack.call_stack) = Len(PreStack.call_stack) + 1
    ]_vars

\* The traps an instruction can raise.
TrapsOf(instr) ==
  CASE instr.op = "Unreachable" -> {"Unreachable"}
    [] instr.op \in {"I32DivS", "I64DivS"} -> {"IntegerDivByZero", "IntegerOverflow"}
    [] instr.op \in {"I32Store8", "I32Load8U"} -> {"OutOfBoundsMemoryAccess"}
    [] OTHER -> {}

\* C33: when an instruction traps, the call frame it ran in is pushed back
\* before the error is returned: the call stack holds the frames below as
\* they were and the trapping frame on top, and the error is the trap of that
\* instruction.
C33Trap ==
  [][ (OneStep /\ run_res'.kind = "Trap") =>
        /\ run_res'.trap \in TrapsOf(StepInstr)
        /\ Len(PostStack.call_stack) = Len(PreStack.call_stack)
        /\ Pop(PostStack.call_stack) = Pop(PreStack.call_stack)
        /\ PostFrame = [PreFrame EXCEPT !.instr_ptr = @ + 1]
    ]_vars

\* Function 3 of the ret guest, called from function 2 with 0, has trapped on
\* its unreachable: its frame is on top of the frame of function 2, each with
\* its block frame.
C33Witness ==
  /\ Mod.name = "ret" /\ hist.func = 2 /\ hist.params = << I32(0) >>
  /\ run_res.op = "run" /\ run_res.kind = "Trap" /\ run_res.trap = "Unreachable"
  /\ run_res.cycles = 1
  /\ IsSome(exec_handle) /\ Len(exec_handle[1].stack.call_stack) = 2
  /\ exec_handle[1].stack.call_stack[1].func_ptr = 2
  /\ Len(exec_handle[1].stack.call_stack[1].block_frames) = 1
  /\ exec_handle[1].stack.call_stack[2].func_ptr = 3
  /\ Len(exec_handle[1].stack.call_stack[2].block_frames) = 1

\* The block arguments of the instruction of the step.
StepArgs == IF "args" \in DOMAIN StepInstr THEN StepInstr.args ELSE "Empty"

\* C34: entering a block or a loop pushes one block frame; the height it
\* records is the height of the value stack at entry less the parameters of
\* the block, and its end pointer is the position of the matching end.
C34Entry ==
  [][ (OneStep /\ StepInstr.op \in {"Block", "Loop"}) =>
        /\ Pop(PostFrame.block_frames) = PreFrame.block_frames
        /\ LET bf == Top(PostFrame.block_frames)
           IN /\ bf.stack_ptr = Len(PreStack.values) - BlockParams(StepArgs)
              /\ bf.end_instr_ptr = PreFrame.instr_ptr + StepInstr.a
              /\ PreFunc.instructions[bf.end_instr_ptr + 1].op = "EndBlockFrame"
    ]_vars

\* C35: the end of a block or of a loop removes the frame of that block and
\* execution goes on with the instruction behind the end; at the end of the
\* function no block frame is left.
C35End ==
  [][ /\ (OneStep /\ StepInstr.op = "EndBlockFrame") =>
           /\ PostFrame.block_frames = Pop(PreFrame.block_frames)
           /\ PostFrame.instr_ptr = PreFrame.instr_ptr + 1
      /\ (OneStep /\ StepInstr.op = "EndFunc") => PreFrame.block_frames = <<>>
    ]_vars

\* A step of serialize: a blob has been handed out, or serialize has returned
\* an error.
SerializeStep ==
  /\ IsSome(exec_handle)
  /\ \/ IsSome(serialized_state') /\ serialized_state' # serialized_state
     \/ run_res'.op = "serialize" /\ run_res' # run_res

\* C37: serialize, whether it hands out a blob or returns an error, leaves
\* the stack of the handle and the memory and globals of the instance as
\* they were.
C37Serialize ==
  [][ SerializeStep => (exec_handle' = exec_handle /\ instance' = instance) ]_vars

\* C38: a callee reaching the end of its body with a frame below it goes on
\* in that frame, which is the frame of the caller as it was at the call,
\* locals and block frames included, pointing at the instruction behind the
\* call; with no frame below, the run is over.
C38Resume ==
  [][ /\ (OneStep /\ StepInstr.op = "Call") =>
           /\ Len(PostStack.call_stack) = Len(PreStack.call_stack) + 1
           /\ PostStack.call_stack[Len(PreStack.call_stack)] =
                [PreFrame EXCEPT !.instr_ptr = @ + 1]
      /\ (OneStep /\ StepInstr.op = "EndFunc") =>
           IF Len(PreStack.call_stack) = 1
           THEN /\ run_res'.kind = "Done" /\ ~hist'.active
                /\ PostStack.call_stack = <<>>
           ELSE /\ run_res'.kind = "Incomplete"
                /\ PostStack.call_stack = Pop(PreStack.call_stack)
                /\ PostStack.values = PreStack.values
                /\ InstrAt(<<PostFrame.func_ptr, PostFrame.instr_ptr - 1>>).op = "Call"
    ]_vars

\* Function 3 of the ret guest, called from function 2 with 2, has returned:
\* function 2 goes on behind its call, inside its block, its locals as they
\* were, the quotient on the stack.
C38Witness ==
  /\ Mod.name = "ret" /\ hist.func = 2 /\ hist.params = << I32(2) >>
  /\ hist.active /\ run_res.cycles = 1
  /\ IsSome(exec_handle) /\ exec_handle[1].stack.values = <<5>>
  /\ Len(exec_handle[1].stack.call_stack) = 1
  /\ Top(exec_handle[1].stack.call_stack).func_ptr = 2
  /\ Top(exec_handle[1].stack.call_stack).instr_ptr = 3
  /\ Top(exec_handle[1].stack.call_stack).locals = <<2, 0>>
  /\ Len(Top(exec_handle[1].stack.call_stack).block_frames) = 1

\* Data segment i of the module is active and runs past the end of its
\* memory.
DataOutOfRange(i) ==
  LET d == Mod.data[i]
  IN /\ d.kind = "Active"
     /\ \/ d.offset < 0
        \/ d.offset + Len(d.bytes) > Mod.memory_pages[d.mem + 1] * PageSize

\* C36: instantiate links the imports, then adds the module's functions,
\* tables, memories and globals, then writes the element segments, then the
\* data segments: a failing import is the error whatever the segments are, an
\* element segment out of range is the trap returned although a data segment
\* is out of range too, and the data trap is returned only when the elements
\* fit; an error leaves no instance, and with it no data written.
C36Order ==
  (boot # "none" /\ run_res.op = "instantiate") =>
    IF MissingImports # {} \/ UnfitImports # {}
    THEN run_res.kind = "LinkError" /\ instance = <<>>
    ELSE IF \E i \in 1..Len(Mod.elements) : ElemOutOfRange(i)
    THEN run_res.kind = "Trap" /\ run_res.trap = "OutOfBoundsTableAccess" /\ instance = <<>>
    ELSE IF \E i \in 1..Len(Mod.data) : DataOutOfRange(i)
    THEN run_res.kind = "Trap" /\ run_res.trap = "OutOfBoundsMemoryAccess" /\ instance = <<>>
    ELSE /\ run_res.kind = "Ok" /\ IsSome(instance)
         /\ Len(instance[1].funcs) >= Len(Mod.funcs)
         /\ Len(instance[1].tables) >= Len(Mod.table_types)
         /\ Len(instance[1].memories) >= Len(Mod.memory_pages)
         /\ Len(instance[1].globals) >= Len(Mod.globals)

\* The import of linkbad is defined, its element segment and its data segment
\* are both out of range, and instantiate has returned the trap of the
\* element segment and no instance.
C36Witness ==
  /\ Mod.name = "linkbad" /\ boot = "failed"
  /\ MissingImports = {} /\ UnfitImports = {}
  /\ ElemOutOfRange(1) /\ DataOutOfRange(2)
  /\ run_res.op = "instantiate" /\ run_res.trap = "OutOfBoundsTableAccess"
  /\ instance = <<>>

\* The arguments are not what function f declares: another number of them,
\* or one of another value type.
BadArgs(f, params) ==
  LET ps == Mod.funcs[f + 1].ty.params
  IN \/ Len(params) # Len(ps)
     \/ \E i \in 1..Len(params) : params[i].ty # ps[i]

\* C39: a call whose arguments differ from the function's parameters in
\* number or in a value type returns an error; no instruction has been
\* dispatched, and the store and every stack are as they were.
C39Args ==
  [][ \A f \in Mod.exports : \A params \in ArgSets(Mod, f) : \A max_cycles \in Budgets :
        (BadArgs(f, params) /\ Call(f, params, FALSE, max_cycles)) =>
          /\ run_res'.op = "call" /\ run_res'.kind = "Err" /\ run_res'.cycles = 0
          /\ instance' = instance /\ old_stack' = old_stack /\ exec_handle' = exec_handle
          /\ hist'.cycles = hist.cycles /\ hist'.trace = hist.trace
          /\ hist'.calls = hist.calls
    ]_vars

\* The count guest has run one call to its end, and the next call, with
\* arguments its function does not take, has been refused.
C39Witness ==
  /\ Mod.name = "count" /\ IsSome(instance)
  /\ hist.calls = 1 /\ hist.over /\ ~hist.active
  /\ run_res.op = "call" /\ run_res.kind = "Err" /\ run_res.cycles = 0
  /\ old_stack = <<>> /\ exec_handle = <<>>

\* C40: instantiate_start hands out an instance only when the start function
\* has run to its end: an instance whose start function was cut short by the
\* budget is not handed out.
C40Started == boot = "suspended" => instance = <<>>

====
